---- MODULE Spec2Model ----
(***************************************************************************)
(* Multi-strategy element location: ElementFinder (element_finder.py) and  *)
(* XPathOptimizer (xpath_optimizer.py).                                    *)
(*                                                                         *)
(* A Python str is modelled as a sequence of symbols (one-character        *)
(* strings, or atomic tokens such as a tag name), so that strip, lower,    *)
(* substring containment, concatenation and equality are computed and not  *)
(* assumed.  None is the empty sequence wherever the source collapses      *)
(* None and '' with `or ''`; an optional value is a sequence of length     *)
(* zero or one.                                                            *)
(***************************************************************************)
EXTENDS Integers, Sequences, FiniteSets, TLC

(***************************************************************************)
(* Bounds of the model.                                                    *)
(***************************************************************************)
MaxStrategies == 3
MaxCalls == 2

(***************************************************************************)
(* str helpers.                                                            *)
(***************************************************************************)
Max(a, b) == IF a >= b THEN a ELSE b

Min(a, b) == IF a <= b THEN a ELSE b

\* s[from:to] with Python's 0-based, end-exclusive bounds
Slice(s, from, to) == SubSeq(s, from + 1, Min(to, Len(s)))

IsSpace(c) == c = " "

RECURSIVE LStrip(_)
LStrip(s) == IF s # <<>> /\ IsSpace(Head(s)) THEN LStrip(Tail(s)) ELSE s

RECURSIVE RStrip(_)
RStrip(s) ==
    IF s # <<>> /\ IsSpace(s[Len(s)]) THEN RStrip(SubSeq(s, 1, Len(s) - 1)) ELSE s

\* str.strip()
Strip(s) == RStrip(LStrip(s))

UpperLetters ==
    <<"A", "B", "C", "D", "E", "F", "G", "H", "I", "J", "K", "L", "M",
      "N", "O", "P", "Q", "R", "S", "T", "U", "V", "W", "X", "Y", "Z">>

LowerLetters ==
    <<"a", "b", "c", "d", "e", "f", "g", "h", "i", "j", "k", "l", "m",
      "n", "o", "p", "q", "r", "s", "t", "u", "v", "w", "x", "y", "z">>

LowerChar(c) ==
    IF \E k \in 1..26 : UpperLetters[k] = c
    THEN LowerLetters[CHOOSE k \in 1..26 : UpperLetters[k] = c]
    ELSE c

\* str.lower()
Lower(s) == [k \in 1..Len(s) |-> LowerChar(s[k])]

\* `sub in s`
Contains(s, sub) ==
    \E k \in 0..(Len(s) - Len(sub)) : Slice(s, k, k + Len(sub)) = sub

\* s.startswith(prefix)
StartsWith(s, prefix) ==
    Len(s) >= Len(prefix) /\ SubSeq(s, 1, Len(prefix)) = prefix

(***************************************************************************)
(* difflib.SequenceMatcher(None, a, b).ratio() as used by _fuzzy_match.    *)
(* find_longest_match returns the longest common block, earliest in a and  *)
(* then earliest in b; get_matching_blocks recurses to its left and right. *)
(* (The autojunk heuristic only applies from 200 characters on.)           *)
(***************************************************************************)
BlockLen(a, b, i, j, ahi, bhi) ==
    LET Ks == {k \in 0..Min(ahi - i, bhi - j) :
                  \A d \in 0..(k - 1) : a[i + d + 1] = b[j + d + 1]}
    IN  CHOOSE k \in Ks : \A m \in Ks : m <= k

FindLongestMatch(a, b, alo, ahi, blo, bhi) ==
    LET Cands == {<<i, j>> : i \in alo..(ahi - 1), j \in blo..(bhi - 1)}
        Best(c) == \A d \in Cands :
            LET kc == BlockLen(a, b, c[1], c[2], ahi, bhi)
                kd == BlockLen(a, b, d[1], d[2], ahi, bhi)
            IN  \/ kc > kd
                \/ kc = kd /\ c[1] < d[1]
                \/ kc = kd /\ c[1] = d[1] /\ c[2] <= d[2]
    IN  IF Cands = {} THEN <<alo, blo, 0>>
        ELSE LET c == CHOOSE c \in Cands : Best(c)
                 k == BlockLen(a, b, c[1], c[2], ahi, bhi)
             IN  IF k = 0 THEN <<alo, blo, 0>> ELSE <<c[1], c[2], k>>

RECURSIVE MatchingChars(_, _, _, _, _, _)
MatchingChars(a, b, alo, ahi, blo, bhi) ==
    LET m == FindLongestMatch(a, b, alo, ahi, blo, bhi)
    IN  IF m[3] = 0 THEN 0
        ELSE m[3] + MatchingChars(a, b, alo, m[1], blo, m[2])
                  + MatchingChars(a, b, m[1] + m[3], ahi, m[2] + m[3], bhi)

\* ratio >= threshold, with the threshold in hundredths.  The ratio is
\* 2.0 * M / T, and 1.0 when both strings are empty.
RatioAtLeast(a, b, pct) ==
    LET T == Len(a) + Len(b)
        M == MatchingChars(a, b, 0, Len(a), 0, Len(b))
    IN  IF T = 0 THEN 100 >= pct ELSE 200 * M >= pct * T

DefaultThresholdPct == 80

\* a comparison that leaves the letter case as it is
FuzzyMatchCaseSensitive(target, candidate, pct) == RatioAtLeast(target, candidate, pct)

\* ElementFinder._fuzzy_match
FuzzyMatch(target, candidate, pct) == RatioAtLeast(Lower(target), Lower(candidate), pct)

(***************************************************************************)
(* Strings of the locator's inputs.                                        *)
(***************************************************************************)
NoneStr == <<>>

Ok == <<"O", "k">>

OkPadded == <<" ", "O", "k", " ">>

OkayUpper == <<"O", "K", "A", "Y">>

OkayLower == <<"o", "k", "a", "y">>

No == <<"N", "o">>

Go == <<"G", "o">>

Tip == <<"t", "i", "p">>

ButtonRole == <<"b", "u", "t", "t", "o", "n">>

ButtonRoleUpper == <<"B", "u", "t", "t", "o", "n">>

LinkRole == <<"l", "i", "n", "k">>

\* the path expression handed to the locator: 'a', not rooted
XPathBareA == <<"a">>

(***************************************************************************)
(* Strategy dictionaries: 'type', 'value', optional 'priority', 'metadata' *)
(* with optional 'role' and 'threshold' (in hundredths).                   *)
(***************************************************************************)
NoMeta == [role |-> NoneStr, threshold |-> <<>>]

Strat(t, v, p, m) == [type |-> t, value |-> v, priority |-> p, metadata |-> m]

StrategyPool ==
    { Strat("text_exact", Ok, <<1>>, NoMeta),
      Strat("css", Ok, <<1>>, NoMeta),
      Strat("xpath", XPathBareA, <<2>>, NoMeta),
      Strat("aria_label", Go, <<3>>, NoMeta),
      Strat("text_fuzzy", OkayLower, <<>>, NoMeta) }

RECURSIVE SeqsUpTo(_, _)
SeqsUpTo(S, n) ==
    IF n = 0 THEN {<<>>}
    ELSE LET R == SeqsUpTo(S, n - 1)
         IN  R \cup {Append(r, x) : r \in {q \in R : Len(q) = n - 1}, x \in S}

StrategyLists == SeqsUpTo(StrategyPool, MaxStrategies)

TargetTexts == {NoneStr, No}

(***************************************************************************)
(* Snapshot nodes (selector map values) and the snapshots the provider may *)
(* return, as sequences of <<index, node>> in iteration order.             *)
(***************************************************************************)
Node(text, role, tag, aria, title, name, vis) ==
    [text |-> text, role |-> role, tag_name |-> tag, aria_label |-> aria,
     placeholder |-> NoneStr, title |-> title, alt |-> NoneStr,
     attributes |-> [name |-> name], is_visible |-> vis]

HiddenOk == Node(Ok, NoneStr, ButtonRole, Go, Tip, <<>>, FALSE)

VisibleOk == Node(OkPadded, NoneStr, ButtonRoleUpper, Go, NoneStr, <<No>>, TRUE)

VisibleNo == Node(No, LinkRole, XPathBareA, NoneStr, Tip, <<>>, TRUE)

VisibleOkay == Node(OkayUpper, ButtonRole, ButtonRole, NoneStr, NoneStr, <<>>, TRUE)

Snapshots ==
    { <<>>,
      << <<1, HiddenOk>>, <<2, VisibleOk>>, <<3, VisibleNo>> >>,
      << <<4, VisibleOkay>>, <<5, VisibleOk>> >> }

PageOutcomes == {"page", "none", "raise"}

MapOutcomes == {"map", "none", "raise"}

\* what page.evaluate(js_code) does: returns null, returns {error: ...},
\* raises, returns a dict without 'found', or returns {found, visible}
EvalOutcomes == {"null", "error", "raise", "nofound", "invisible", "visible"}

(***************************************************************************)
(* ElementFinder: the pure parts.                                          *)
(***************************************************************************)
SemanticTypes ==
    {"text_exact", "role_text", "aria_label", "placeholder", "title", "alt_text",
     "text_fuzzy"}

\* strategy.get('priority', 999)
DefaultPriority == 999

PriorityOf(strategy) ==
    IF strategy.priority = <<>> THEN DefaultPriority ELSE strategy.priority[1]

\* sorted(strategies, key=lambda s: s.get('priority', 999)): a stable sort
RECURSIVE InsertByPriority(_, _)
InsertByPriority(sorted, s) ==
    IF sorted = <<>> THEN <<s>>
    ELSE IF PriorityOf(Head(sorted)) <= PriorityOf(s)
         THEN <<Head(sorted)>> \o InsertByPriority(Tail(sorted), s)
         ELSE <<s>> \o sorted

\* iteration in input order, without the sort
SortedByPriorityInputOrder(strats) == strats

RECURSIVE SortedByPriority(_)
SortedByPriority(strats) ==
    IF strats = <<>> THEN <<>>
    ELSE InsertByPriority(SortedByPriority(SubSeq(strats, 1, Len(strats) - 1)),
                          strats[Len(strats)])

\* ElementFinder._matches_strategy
MatchesStrategy(node, strategy_type, value, metadata) ==
    CASE strategy_type = "text_exact" -> Strip(node.text) = value
      [] strategy_type = "role_text" ->
            LET expected_role == Lower(metadata.role)
                node_role == Lower(IF node.role # NoneStr THEN node.role
                                   ELSE node.tag_name)
            IN  node_role = expected_role /\ Strip(node.text) = value
      [] strategy_type = "aria_label" -> Strip(node.aria_label) = value
      [] strategy_type = "placeholder" -> Strip(node.placeholder) = value
      [] strategy_type = "title" -> Strip(node.title) = value
      [] strategy_type = "alt_text" -> Strip(node.alt) = value
      [] strategy_type = "text_fuzzy" ->
            LET threshold == IF metadata.threshold = <<>> THEN DefaultThresholdPct
                             ELSE metadata.threshold[1]
            IN  FuzzyMatch(value, Strip(node.text), threshold)
      [] OTHER -> FALSE

\* the text_sources list built by _validate_element_in_map
TextSources(node) ==
    LET fields == <<node.text, node.aria_label, node.placeholder, node.title, node.alt>>
        named == IF node.attributes.name = <<>> THEN <<>>
                 ELSE <<node.attributes.name[1]>>
        present == SelectSeq(fields, LAMBDA f : f # NoneStr) \o named
    IN  [k \in 1..Len(present) |-> Strip(Lower(present[k]))]

\* found_match of _validate_element_in_map
TargetTextFound(node, target_text) ==
    LET target_lower == Strip(Lower(target_text))
        sources == TextSources(node)
    IN  \E k \in 1..Len(sources) :
            /\ sources[k] # <<>>
            /\ \/ Contains(sources[k], target_lower)
               \/ Contains(target_lower, sources[k])

\* a validation in which a targetText mismatch rejects the node
ValidateElementInMapStrict(index, node, target_text) ==
    IF ~node.is_visible THEN FALSE
    ELSE IF target_text # NoneStr
         THEN TargetTextFound(node, target_text)
         ELSE TRUE

\* a validation that forgets the visibility gate
ValidateElementInMapNoGate(index, node, target_text) == TRUE

\* ElementFinder._validate_element_in_map: visibility is the only gate, the
\* targetText comparison decides between two log messages
ValidateElementInMap(index, node, target_text) ==
    IF ~node.is_visible THEN FALSE
    ELSE IF target_text # NoneStr
         THEN (IF ~TargetTextFound(node, target_text) THEN TRUE ELSE TRUE)
         ELSE TRUE

\* a scan that ends at the first entry that matches, validated or not
FindWithSemanticStrategyFirstMatchOnly(strategy_type, strategy_value, metadata, selector_map, target_text) ==
    LET Matches == {k \in 1..Len(selector_map) :
                       MatchesStrategy(selector_map[k][2], strategy_type,
                                       strategy_value, metadata)}
    IN  IF Matches = {} THEN <<>>
        ELSE LET k == CHOOSE h \in Matches : \A g \in Matches : h <= g
             IN  IF ValidateElementInMap(selector_map[k][1], selector_map[k][2],
                                         target_text)
                 THEN <<[index |-> selector_map[k][1], node |-> selector_map[k][2]]>>
                 ELSE <<>>

\* ElementFinder._find_with_semantic_strategy: the first entry of the map, in
\* iteration order, that matches and validates; <<>> is None
FindWithSemanticStrategy(strategy_type, strategy_value, metadata, selector_map, target_text) ==
    LET Hits == {k \in 1..Len(selector_map) :
                    /\ MatchesStrategy(selector_map[k][2], strategy_type,
                                       strategy_value, metadata)
                    /\ ValidateElementInMap(selector_map[k][1], selector_map[k][2],
                                            target_text)}
    IN  IF Hits = {} THEN <<>>
        ELSE LET k == CHOOSE h \in Hits : \A g \in Hits : h <= g
             IN  <<[index |-> selector_map[k][1], node |-> selector_map[k][2]]>>

\* the normalisation at the head of _find_with_xpath
NormalizeXPath(xpath) ==
    IF xpath # <<>> /\ ~StartsWith(xpath, <<"/">>) /\ ~StartsWith(xpath, <<"(">>)
    THEN <<"/">> \o xpath
    ELSE xpath

\* a path lookup that accepts whatever the page found
FindWithXPathAnyFound(xpath, outcome) ==
    IF outcome \in {"visible", "invisible"} THEN <<NormalizeXPath(xpath)>> ELSE <<>>

\* ElementFinder._find_with_xpath, given what page.evaluate did; <<>> is None
FindWithXPath(xpath, outcome) ==
    CASE outcome = "raise" -> <<>>
      [] outcome = "null" -> <<>>
      [] outcome = "error" -> <<>>
      [] outcome = "nofound" -> <<>>
      [] outcome = "invisible" -> <<>>
      [] outcome = "visible" -> <<NormalizeXPath(xpath)>>

\* bool(selector_map): neither None (<<>>) nor an empty mapping (<< <<>> >>)
MapAvailable(selector_map) == selector_map # <<>> /\ selector_map[1] # <<>>

\* StrategyAttempt(...)
StrategyAttempt(strategy, success, error_message) ==
    [strategy_type |-> strategy.type, strategy_value |-> strategy.value,
     priority |-> PriorityOf(strategy), success |-> success,
     error_message |-> error_message, metadata |-> strategy.metadata]

(***************************************************************************)
(* xpath_optimizer.py.  Path expressions are strings of single characters. *)
(***************************************************************************)
Digits == <<"0", "1", "2", "3", "4", "5", "6", "7", "8", "9">>

IsDigit(c) == \E d \in 1..10 : Digits[d] = c

\* the character class [a-zA-Z0-9_-] of the segment pattern
IsTagChar(c) ==
    \/ IsDigit(c)
    \/ c \in {"_", "-"}
    \/ c \in {"a", "b", "c", "d", "e", "f", "g", "h", "i", "j", "k", "l", "m",
              "n", "o", "p", "q", "r", "s", "t", "u", "v", "w", "x", "y", "z"}
    \/ c \in {"A", "B", "C", "D", "E", "F", "G", "H", "I", "J", "K", "L", "M",
              "N", "O", "P", "Q", "R", "S", "T", "U", "V", "W", "X", "Y", "Z"}

DigitValue(c) == (CHOOSE d \in 1..10 : Digits[d] = c) - 1

\* int(digits)
RECURSIVE ToInt(_)
ToInt(ds) ==
    IF ds = <<>> THEN 0
    ELSE 10 * ToInt(SubSeq(ds, 1, Len(ds) - 1)) + DigitValue(ds[Len(ds)])

\* str(n) for n >= 0
RECURSIVE IntToStr(_)
IntToStr(n) ==
    IF n < 10 THEN <<Digits[n + 1]>>
    ELSE IntToStr(n \div 10) \o <<Digits[(n % 10) + 1]>>

\* s.split(c) on a single character
RECURSIVE SplitOn(_, _)
SplitOn(s, c) ==
    IF \A k \in 1..Len(s) : s[k] # c THEN <<s>>
    ELSE LET p == CHOOSE k \in 1..Len(s) : s[k] = c /\ \A m \in 1..(k - 1) : s[m] # c
         IN  <<SubSeq(s, 1, p - 1)>> \o SplitOn(SubSeq(s, p + 1, Len(s)), c)

\* s.split(): runs of non-blank characters
SplitWords(s) == SelectSeq(SplitOn(s, " "), LAMBDA w : w # <<>>)

\* sep.join(list)
RECURSIVE Join(_, _)
Join(list, sep) ==
    IF list = <<>> THEN <<>>
    ELSE IF Len(list) = 1 THEN list[1]
    ELSE list[1] \o sep \o Join(Tail(list), sep)

\* xpath.lstrip('/')
RECURSIVE LStripSlash(_)
LStripSlash(s) == IF s # <<>> /\ Head(s) = "/" THEN LStripSlash(Tail(s)) ELSE s

HasChar(s, c) == \E k \in 1..Len(s) : s[k] = c

\* escape_xpath_string
EscapeXPathString(value) ==
    IF value = <<>> THEN <<"'", "'">>
    ELSE IF ~HasChar(value, "'") THEN <<"'">> \o value \o <<"'">>
    ELSE IF ~HasChar(value, "\"") THEN <<"\"">> \o value \o <<"\"">>
    ELSE LET parts == SplitOn(value, "'")
             Piece(k) == (IF parts[k] # <<>> THEN << <<"\"">> \o parts[k] \o <<"\"">> >> ELSE <<>>)
                         \o (IF k < Len(parts) THEN << <<"\"", "'", "\"">> >> ELSE <<>>)
             RECURSIVE Pieces(_)
             Pieces(k) == IF k > Len(parts) THEN <<>> ELSE Piece(k) \o Pieces(k + 1)
         IN  <<"c", "o", "n", "c", "a", "t", "(">> \o Join(Pieces(1), <<",", " ">>) \o <<")">>

\* a part whose original text is rebuilt from the tag and the index read
ParseSegmentRebuilt(segment) ==
    LET n == Cardinality({k \in 1..Len(segment) :
                 \A m \in 1..k : IsTagChar(segment[m])})
        tag == SubSeq(segment, 1, n)
        rest == SubSeq(segment, n + 1, Len(segment))
        digits == SubSeq(rest, 2, Len(rest) - 1)
    IN  IF n = 0 THEN <<>>
        ELSE IF rest = <<>>
             THEN <<[tag |-> tag, index |-> <<>>, original |-> tag]>>
        ELSE IF /\ Len(rest) >= 3
                /\ rest[1] = "["
                /\ rest[Len(rest)] = "]"
                /\ \A k \in 1..Len(digits) : IsDigit(digits[k])
             THEN <<[tag |-> tag, index |-> <<ToInt(digits)>>,
                     original |-> tag \o <<"[">> \o IntToStr(ToInt(digits)) \o <<"]">>]>>
        ELSE <<>>

\* one segment against ^([a-zA-Z0-9_-]+)(?:\[(\d+)\])?$ ; <<>> when it does
\* not match, else <<part>> with index <<>> for None
ParseSegment(segment) ==
    LET n == Cardinality({k \in 1..Len(segment) :
                 \A m \in 1..k : IsTagChar(segment[m])})
        tag == SubSeq(segment, 1, n)
        rest == SubSeq(segment, n + 1, Len(segment))
        digits == SubSeq(rest, 2, Len(rest) - 1)
    IN  IF n = 0 THEN <<>>
        ELSE IF rest = <<>>
             THEN <<[tag |-> tag, index |-> <<>>, original |-> segment]>>
        ELSE IF /\ Len(rest) >= 3
                /\ rest[1] = "["
                /\ rest[Len(rest)] = "]"
                /\ \A k \in 1..Len(digits) : IsDigit(digits[k])
             THEN <<[tag |-> tag, index |-> <<ToInt(digits)>>, original |-> segment]>>
        ELSE <<>>

\* XPathOptimizer._parse_xpath
ParseXPath(xpath) ==
    LET segments == SplitOn(LStripSlash(xpath), "/")
        RECURSIVE Parts(_)
        Parts(k) == IF k > Len(segments) THEN <<>>
                    ELSE ParseSegment(segments[k]) \o Parts(k + 1)
    IN  Parts(1)

(***************************************************************************)
(* element_info: <<>> for None, else <<dict>>; in the dict an absent key   *)
(* is <<>> and a present one <<value>>; 'attributes' is a list of          *)
(* <<name, value>> pairs in insertion order.                               *)
(***************************************************************************)
Info(tag, text, attributes) == <<[tag |-> tag, text |-> text, attributes |-> attributes]>>

EmptyDict == [tag |-> <<>>, text |-> <<>>, attributes |-> <<>>]

\* bool(element_info)
InfoGiven(element_info) == element_info # <<>> /\ element_info[1] # EmptyDict

\* dict.get(key, default) on an optional field
GetOr(field, default) == IF field = <<>> THEN default ELSE field[1]

\* attrs.get(name): the value, <<>> when absent (or empty, equally falsy)
AttrGet(attrs, name) ==
    IF \E k \in 1..Len(attrs) : attrs[k][1] = name
    THEN attrs[CHOOSE k \in 1..Len(attrs) : attrs[k][1] = name][2]
    ELSE <<>>

\* truthiness of part['index']: None and 0 are both falsy
IndexGiven(part) == part.index # <<>> /\ part.index[1] # 0

IndexSuffix(part) ==
    IF IndexGiven(part) THEN <<"[">> \o IntToStr(part.index[1]) \o <<"]">> ELSE <<>>

\* XPathOptimizer._generate_attribute_based_xpaths
GenerateAttributeBasedXPaths(element_info, parts) ==
    LET tag == Lower(GetOr(element_info.tag, <<"*">>))
        attrs == GetOr(element_info.attributes, <<>>)
        text == Strip(GetOr(element_info.text, <<>>))
        Pred(body) == <<"/", "/">> \o tag \o <<"[">> \o body \o <<"]">>
        ById == IF AttrGet(attrs, <<"i", "d">>) # <<>>
                THEN << Pred(<<"@", "i", "d", "=">> \o EscapeXPathString(AttrGet(attrs, <<"i", "d">>))) >>
                ELSE <<>>
        ByName == IF AttrGet(attrs, <<"n", "a", "m", "e">>) # <<>>
                  THEN << Pred(<<"@", "n", "a", "m", "e", "=">> \o EscapeXPathString(AttrGet(attrs, <<"n", "a", "m", "e">>))) >>
                  ELSE <<>>
        RECURSIVE ByData(_)
        ByData(k) ==
            IF k > Len(attrs) THEN <<>>
            ELSE (IF StartsWith(attrs[k][1], <<"d", "a", "t", "a", "-">>) /\ attrs[k][2] # <<>>
                  THEN << Pred(<<"@">> \o attrs[k][1] \o <<"=">> \o EscapeXPathString(attrs[k][2])) >>
                  ELSE <<>>) \o ByData(k + 1)
        ByAriaLabel == IF AttrGet(attrs, <<"a", "r", "i", "a", "-", "l", "a", "b", "e", "l">>) # <<>>
                       THEN << Pred(<<"@", "a", "r", "i", "a", "-", "l", "a", "b", "e", "l", "=">>
                                    \o EscapeXPathString(AttrGet(attrs, <<"a", "r", "i", "a", "-", "l", "a", "b", "e", "l">>))) >>
                       ELSE <<>>
        ByAriaLabelledBy == IF AttrGet(attrs, <<"a", "r", "i", "a", "-", "l", "a", "b", "e", "l", "l", "e", "d", "b", "y">>) # <<>>
                            THEN << Pred(<<"@", "a", "r", "i", "a", "-", "l", "a", "b", "e", "l", "l", "e", "d", "b", "y", "=">>
                                    \o EscapeXPathString(AttrGet(attrs, <<"a", "r", "i", "a", "-", "l", "a", "b", "e", "l", "l", "e", "d", "b", "y">>))) >>
                            ELSE <<>>
        ByRole == IF AttrGet(attrs, <<"r", "o", "l", "e">>) # <<>>
                  THEN IF text # <<>>
                       THEN << Pred(<<"@", "r", "o", "l", "e", "=">> \o EscapeXPathString(AttrGet(attrs, <<"r", "o", "l", "e">>))
                                    \o <<" ", "a", "n", "d", " ", "c", "o", "n", "t", "a", "i", "n", "s", "(", "t", "e", "x", "t", "(", ")", ",", " ">>
                                    \o EscapeXPathString(text) \o <<")">>) >>
                       ELSE << Pred(<<"@", "r", "o", "l", "e", "=">> \o EscapeXPathString(AttrGet(attrs, <<"r", "o", "l", "e">>))) >>
                  ELSE <<>>
        classes == SelectSeq(SplitWords(AttrGet(attrs, <<"c", "l", "a", "s", "s">>)),
                             LAMBDA cls : ~StartsWith(cls, <<"c", "s", "s", "-">>))
        ByClass == IF classes # <<>>
                   THEN << Pred(<<"c", "o", "n", "t", "a", "i", "n", "s", "(", "@", "c", "l", "a", "s", "s", ",", " ">> \o EscapeXPathString(classes[1]) \o <<")">>) >>
                   ELSE <<>>
        ByText == IF text # <<>>
                  THEN << Pred(<<"t", "e", "x", "t", "(", ")", "=">> \o EscapeXPathString(text)) >>
                       \o (IF Len(text) > 3
                           THEN << Pred(<<"c", "o", "n", "t", "a", "i", "n", "s", "(", "t", "e", "x", "t", "(", ")", ",", " ">> \o EscapeXPathString(text) \o <<")">>) >>
                           ELSE <<>>)
                  ELSE <<>>
    IN  ById \o ByName \o ByData(1) \o ByAriaLabel \o ByAriaLabelledBy \o ByRole
             \o ByClass \o ByText

\* XPathOptimizer._build_relative_path
BuildRelativePath(parts) ==
    LET Segment(k) == (IF k = 2 THEN <<"/", "/">> ELSE <<"/">>) \o parts[k].tag
                      \o IndexSuffix(parts[k])
        RECURSIVE Segments(_)
        Segments(k) == IF k > Len(parts) THEN <<>> ELSE Segment(k) \o Segments(k + 1)
    IN  Segments(2)

AnchorTags ==
    { <<"t", "a", "b", "l", "e">>, <<"f", "o", "r", "m">>, <<"n", "a", "v">>, <<"h", "e", "a", "d", "e", "r">>, <<"f", "o", "o", "t", "e", "r">>, <<"s", "e", "c", "t", "i", "o", "n">>,
      <<"a", "r", "t", "i", "c", "l", "e">>, <<"a", "s", "i", "d", "e">>, <<"m", "a", "i", "n">> }

\* XPathOptimizer._generate_anchored_xpaths
GenerateAnchoredXPaths(parts, element_info) ==
    LET n == Len(parts)
        target_tag == parts[n].tag
        hasText == InfoGiven(element_info) /\ GetOr(element_info[1].text, <<>>) # <<>>
        Anchor(k) ==
            IF parts[k].tag \in AnchorTags
            THEN << <<"/", "/">> \o parts[k].tag \o BuildRelativePath(SubSeq(parts, k, n)) >>
                 \o (IF hasText
                     THEN << <<"/", "/">> \o parts[k].tag \o <<"/", "/">> \o target_tag
                             \o <<"[", "c", "o", "n", "t", "a", "i", "n", "s", "(", "t", "e", "x", "t", "(", ")", ",", " ">>
                             \o EscapeXPathString(element_info[1].text[1]) \o <<")", "]">> >>
                     ELSE <<>>)
            ELSE <<>>
        RECURSIVE Anchors(_)
        Anchors(k) == IF k > n THEN <<>> ELSE Anchor(k) \o Anchors(k + 1)
        \* next((p['index'] for p in parts[k:] if p['tag'] == t and p['index']), None)
        FirstIndex(k, t) ==
            LET Is == {m \in k..n : parts[m].tag = t /\ IndexGiven(parts[m])}
            IN  IF Is = {} THEN <<>>
                ELSE parts[CHOOSE m \in Is : \A q \in Is : m <= q].index
        Cell(k) ==
            IF /\ parts[k].tag = <<"t", "a", "b", "l", "e">>
               /\ \E m \in k..n : parts[m].tag = <<"t", "r">>
               /\ \E m \in k..n : parts[m].tag = <<"t", "d">>
               /\ FirstIndex(k, <<"t", "r">>) # <<>>
               /\ FirstIndex(k, <<"t", "d">>) # <<>>
            THEN LET cell == <<"/", "/", "t", "a", "b", "l", "e", "/", "/", "t", "r", "[">> \o IntToStr(FirstIndex(k, <<"t", "r">>)[1])
                             \o <<"]", "/", "t", "d", "[">> \o IntToStr(FirstIndex(k, <<"t", "d">>)[1]) \o <<"]">>
                 IN  << cell \o <<"/", "/">> \o target_tag, cell \o <<"/">> \o target_tag >>
            ELSE <<>>
        RECURSIVE Cells(_)
        Cells(k) == IF k > n - 2 THEN <<>> ELSE Cell(k) \o Cells(k + 1)
    IN  Anchors(1) \o (IF n >= 3 THEN Cells(1) ELSE <<>>)

\* XPathOptimizer._generate_positional_xpaths
GeneratePositionalXPaths(parts, element_info) ==
    IF parts = <<>> THEN <<>>
    ELSE IF (\E k \in 1..Len(parts) : parts[k].tag = <<"t", "a", "b", "l", "e">>) /\ InfoGiven(element_info)
         THEN << <<"(", "/", "/", "t", "a", "b", "l", "e", "/", "/">> \o parts[Len(parts)].tag \o <<")", "[", "1", "]">> >>
         ELSE <<>>

StableTags ==
    { <<"h", "t", "m", "l">>, <<"b", "o", "d", "y">>, <<"t", "a", "b", "l", "e">>, <<"f", "o", "r", "m">>, <<"n", "a", "v">>, <<"h", "e", "a", "d", "e", "r">>, <<"f", "o", "o", "t", "e", "r">>, <<"m", "a", "i", "n">> }

ShortEnough == 4

KeepLast == 3

\* XPathOptimizer._shorten_absolute_xpath; <<>> for None, else <<path>>
ShortenAbsoluteXPath(parts) ==
    IF Len(parts) <= ShortEnough THEN <<>>
    ELSE LET Stable == {k \in 0..(Len(parts) - 1) : parts[k + 1].tag \in StableTags}
             last_stable_idx == IF Stable = {} THEN 0
                                ELSE CHOOSE k \in Stable : \A m \in Stable : m <= k
         IN  IF last_stable_idx < Len(parts) - KeepLast
             THEN LET keep_from == Max(last_stable_idx, Len(parts) - KeepLast)
                      shortened_parts == SubSeq(parts, keep_from + 1, Len(parts))
                  IN  << <<"/">> \o Join([k \in 1..Len(shortened_parts) |->
                                           shortened_parts[k].original], <<"/">>) >>
             ELSE <<>>

\* lines 132-138: drop duplicates and copies of the absolute path, keeping
\* first-seen order
RECURSIVE UniqueAlternatives(_, _, _)
UniqueAlternatives(alternatives, seen, absolute_xpath) ==
    IF alternatives = <<>> THEN <<>>
    ELSE LET xpath == Head(alternatives)
         IN  IF xpath \notin seen /\ xpath # absolute_xpath
             THEN <<xpath>> \o UniqueAlternatives(Tail(alternatives), seen \cup {xpath},
                                                  absolute_xpath)
             ELSE UniqueAlternatives(Tail(alternatives), seen, absolute_xpath)

\* lines 109-130: all candidates in generation order
Alternatives(absolute_xpath, element_info) ==
    LET parts == ParseXPath(absolute_xpath)
        attr_xpaths == IF InfoGiven(element_info)
                       THEN GenerateAttributeBasedXPaths(element_info[1], parts)
                       ELSE <<>>
        shortened_xpath == ShortenAbsoluteXPath(parts)
    IN  attr_xpaths
        \o GenerateAnchoredXPaths(parts, element_info)
        \o GeneratePositionalXPaths(parts, element_info)
        \o (IF shortened_xpath # <<>> /\ shortened_xpath[1] # absolute_xpath
            THEN shortened_xpath ELSE <<>>)

\* an optimizer that does not set aside copies of the absolute path
OptimizeXPathKeepCopies(absolute_xpath, element_info, max_alternatives) ==
    LET unique == UniqueAlternatives(Alternatives(absolute_xpath, element_info), {},
                                     <<>>)
    IN  IF max_alternatives <= 1 THEN <<absolute_xpath>>
        ELSE SubSeq(unique, 1, Min(max_alternatives - 1, Len(unique)))
             \o <<absolute_xpath>>

\* a limit whose single-path case is taken below 1 only
OptimizeXPathOffByOne(absolute_xpath, element_info, max_alternatives) ==
    LET unique == UniqueAlternatives(Alternatives(absolute_xpath, element_info), {},
                                     absolute_xpath)
    IN  IF max_alternatives < 1 THEN <<absolute_xpath>>
        ELSE SubSeq(unique, 1, Min(max_alternatives, Len(unique))) \o <<absolute_xpath>>

\* XPathOptimizer.optimize_xpath
OptimizeXPath(absolute_xpath, element_info, max_alternatives) ==
    LET unique == UniqueAlternatives(Alternatives(absolute_xpath, element_info), {},
                                     absolute_xpath)
    IN  IF max_alternatives <= 1 THEN <<absolute_xpath>>
        ELSE SubSeq(unique, 1, Min(max_alternatives - 1, Len(unique)))
             \o <<absolute_xpath>>

(***************************************************************************)
(* selector_generator.py.  element_data is a dict: an absent key is <<>>,  *)
(* a present one <<value>>; 'attributes' is a list of <<name, value>>      *)
(* pairs in insertion order.  A SelectorStrategy is a record; its metadata *)
(* carries every key the generator may set, with NoneStr, <<>> or FALSE    *)
(* for a key that is not set.  A threshold is in hundredths.               *)
(***************************************************************************)
\* `name in attrs`
AttrHas(attrs, name) == \E k \in 1..Len(attrs) : attrs[k][1] = name

Metadata(tag) ==
    [tag |-> tag, role |-> NoneStr, threshold |-> <<>>, strategy |-> NoneStr,
     optimized |-> FALSE, index |-> <<>>, fallback |-> FALSE]

SelectorStrategy(type, value, priority, metadata) ==
    [type |-> type, value |-> value, priority |-> priority, metadata |-> metadata]

\* role_map.get(tag): <<>> for None
RoleMap(tag) ==
    CASE tag = <<"b", "u", "t", "t", "o", "n">> -> << <<"b", "u", "t", "t", "o", "n">> >>
      [] tag = <<"a">> -> << <<"l", "i", "n", "k">> >>
      [] tag = <<"i", "n", "p", "u", "t">> -> << <<"t", "e", "x", "t", "b", "o", "x">> >>
      [] tag = <<"t", "e", "x", "t", "a", "r", "e", "a">> -> << <<"t", "e", "x", "t", "b", "o", "x">> >>
      [] tag = <<"s", "e", "l", "e", "c", "t">> -> << <<"c", "o", "m", "b", "o", "b", "o", "x">> >>
      [] tag \in { <<"h", "1">>, <<"h", "2">>, <<"h", "3">>, <<"h", "4">>, <<"h", "5">>, <<"h", "6">> } -> << <<"h", "e", "a", "d", "i", "n", "g">> >>
      [] tag = <<"i", "m", "g">> -> << <<"i", "m", "g">> >>
      [] tag = <<"t", "a", "b", "l", "e">> -> << <<"t", "a", "b", "l", "e">> >>
      [] tag \in { <<"u", "l">>, <<"o", "l">> } -> << <<"l", "i", "s", "t">> >>
      [] tag = <<"n", "a", "v">> -> << <<"n", "a", "v", "i", "g", "a", "t", "i", "o", "n">> >>
      [] OTHER -> <<>>

\* an inference that consults the tag table before the input types
InferRoleTableFirst(tag, attrs) ==
    IF AttrHas(attrs, <<"r", "o", "l", "e">>) THEN << AttrGet(attrs, <<"r", "o", "l", "e">>) >>
    ELSE IF RoleMap(tag) # <<>> THEN RoleMap(tag)
    ELSE IF /\ tag = <<"i", "n", "p", "u", "t">>
            /\ AttrHas(attrs, <<"t", "y", "p", "e">>)
            /\ Lower(AttrGet(attrs, <<"t", "y", "p", "e">>)) \in { <<"c", "h", "e", "c", "k", "b", "o", "x">>, <<"r", "a", "d", "i", "o">>, <<"s", "u", "b", "m", "i", "t">> }
         THEN LET input_type == Lower(AttrGet(attrs, <<"t", "y", "p", "e">>))
              IN  IF input_type = <<"c", "h", "e", "c", "k", "b", "o", "x">> THEN << <<"c", "h", "e", "c", "k", "b", "o", "x">> >>
                  ELSE IF input_type = <<"r", "a", "d", "i", "o">> THEN << <<"r", "a", "d", "i", "o">> >>
                  ELSE << <<"b", "u", "t", "t", "o", "n">> >>
    ELSE <<>>

\* SelectorGenerator._infer_role: <<>> for None, else <<role>>
InferRole(tag, attrs) ==
    IF AttrHas(attrs, <<"r", "o", "l", "e">>) THEN << AttrGet(attrs, <<"r", "o", "l", "e">>) >>
    ELSE IF /\ tag = <<"i", "n", "p", "u", "t">>
            /\ AttrHas(attrs, <<"t", "y", "p", "e">>)
            /\ Lower(AttrGet(attrs, <<"t", "y", "p", "e">>)) \in { <<"c", "h", "e", "c", "k", "b", "o", "x">>, <<"r", "a", "d", "i", "o">>, <<"s", "u", "b", "m", "i", "t">> }
         THEN LET input_type == Lower(AttrGet(attrs, <<"t", "y", "p", "e">>))
              IN  IF input_type = <<"c", "h", "e", "c", "k", "b", "o", "x">> THEN << <<"c", "h", "e", "c", "k", "b", "o", "x">> >>
                  ELSE IF input_type = <<"r", "a", "d", "i", "o">> THEN << <<"r", "a", "d", "i", "o">> >>
                  ELSE << <<"b", "u", "t", "t", "o", "n">> >>
    ELSE RoleMap(tag)

\* SelectorGenerator._escape_xpath_value
EscapeXPathValue(value) ==
    IF HasChar(value, "'")
    THEN IF HasChar(value, "\"")
         THEN <<"c", "o", "n", "c", "a", "t", "(", "'">> \o Join(SplitOn(value, "'"), <<"'", ",", " ", "\"", "'", "\"", ",", " ", "'">>) \o <<"'", ")">>
         ELSE <<"\"">> \o value \o <<"\"">>
    ELSE <<"'">> \o value \o <<"'">>

\* a synthesis that looks at the name attribute before the id
GenerateXPathNameFirst(tag, text, attrs) ==
    LET head == IF tag # <<>> THEN <<"/", "/">> \o tag ELSE <<"/", "/", "*">>
        Cond(name) == <<"@">> \o name \o <<"=">> \o EscapeXPathValue(AttrGet(attrs, name))
        DataKeys == {k \in 1..Len(attrs) : StartsWith(attrs[k][1], <<"d", "a", "t", "a", "-">>)}
        DataHits == {k \in DataKeys : attrs[k][2] # <<>>}
        conditions ==
            IF AttrGet(attrs, <<"n", "a", "m", "e">>) # <<>> THEN << Cond(<<"n", "a", "m", "e">>) >>
            ELSE IF AttrGet(attrs, <<"i", "d">>) # <<>> THEN << Cond(<<"i", "d">>) >>
            ELSE IF DataKeys # {}
                 THEN (IF DataHits = {} THEN <<>>
                       ELSE LET k == CHOOSE h \in DataHits : \A g \in DataHits : h <= g
                            IN  << <<"@">> \o attrs[k][1] \o <<"=">>
                                   \o EscapeXPathValue(attrs[k][2]) >>)
            ELSE IF AttrGet(attrs, <<"a", "r", "i", "a", "-", "l", "a", "b", "e", "l">>) # <<>> THEN << Cond(<<"a", "r", "i", "a", "-", "l", "a", "b", "e", "l">>) >>
            ELSE IF AttrGet(attrs, <<"p", "l", "a", "c", "e", "h", "o", "l", "d", "e", "r">>) # <<>> THEN << Cond(<<"p", "l", "a", "c", "e", "h", "o", "l", "d", "e", "r">>) >>
            ELSE IF text # <<>>
                 THEN << <<"c", "o", "n", "t", "a", "i", "n", "s", "(", "t", "e", "x", "t", "(", ")", ",", " ">> \o EscapeXPathValue(text) \o <<")">> >>
            ELSE <<>>
    IN  IF conditions # <<>>
        THEN << head \o <<"[">> \o Join(conditions, <<" ", "a", "n", "d", " ">>) \o <<"]">> >>
        ELSE <<>>

\* SelectorGenerator._generate_xpath: <<>> for None, else <<expression>>
GenerateXPath(tag, text, attrs) ==
    LET head == IF tag # <<>> THEN <<"/", "/">> \o tag ELSE <<"/", "/", "*">>
        Cond(name) == <<"@">> \o name \o <<"=">> \o EscapeXPathValue(AttrGet(attrs, name))
        DataKeys == {k \in 1..Len(attrs) : StartsWith(attrs[k][1], <<"d", "a", "t", "a", "-">>)}
        DataHits == {k \in DataKeys : attrs[k][2] # <<>>}
        conditions ==
            IF AttrGet(attrs, <<"i", "d">>) # <<>> THEN << Cond(<<"i", "d">>) >>
            ELSE IF AttrGet(attrs, <<"n", "a", "m", "e">>) # <<>> THEN << Cond(<<"n", "a", "m", "e">>) >>
            ELSE IF DataKeys # {}
                 THEN (IF DataHits = {} THEN <<>>
                       ELSE LET k == CHOOSE h \in DataHits : \A g \in DataHits : h <= g
                            IN  << <<"@">> \o attrs[k][1] \o <<"=">>
                                   \o EscapeXPathValue(attrs[k][2]) >>)
            ELSE IF AttrGet(attrs, <<"a", "r", "i", "a", "-", "l", "a", "b", "e", "l">>) # <<>> THEN << Cond(<<"a", "r", "i", "a", "-", "l", "a", "b", "e", "l">>) >>
            ELSE IF AttrGet(attrs, <<"p", "l", "a", "c", "e", "h", "o", "l", "d", "e", "r">>) # <<>> THEN << Cond(<<"p", "l", "a", "c", "e", "h", "o", "l", "d", "e", "r">>) >>
            ELSE IF text # <<>>
                 THEN << <<"c", "o", "n", "t", "a", "i", "n", "s", "(", "t", "e", "x", "t", "(", ")", ",", " ">> \o EscapeXPathValue(text) \o <<")">> >>
            ELSE <<>>
    IN  IF conditions # <<>>
        THEN << head \o <<"[">> \o Join(conditions, <<" ", "a", "n", "d", " ">>) \o <<"]">> >>
        ELSE <<>>

\* xpath.count(c)
CountChar(s, c) == Cardinality({k \in 1..Len(s) : s[k] = c})

\* SelectorGenerator._calculate_xpath_priority
CalculateXPathPriority(xpath, is_absolute) ==
    IF is_absolute \/ StartsWith(xpath, <<"/", "h", "t", "m", "l", "/", "b", "o", "d", "y">>) THEN 10
    ELSE IF Contains(xpath, <<"@", "i", "d", "=">>) \/ Contains(xpath, <<"@", "i", "d", " ", "=">>) THEN 2
    ELSE IF Contains(xpath, <<"@", "n", "a", "m", "e", "=">>) \/ Contains(xpath, <<"@", "n", "a", "m", "e", " ", "=">>) THEN 2
    ELSE IF Contains(xpath, <<"@", "d", "a", "t", "a", "-">>) THEN 2
    ELSE IF \/ Contains(xpath, <<"@", "a", "r", "i", "a", "-", "l", "a", "b", "e", "l", "=">>)
            \/ Contains(xpath, <<"@", "a", "r", "i", "a", "-", "l", "a", "b", "e", "l", "l", "e", "d", "b", "y", "=">>)
            \/ Contains(xpath, <<"@", "r", "o", "l", "e", "=">>) THEN 3
    ELSE IF /\ Contains(xpath, <<"/", "/", "t", "a", "b", "l", "e", "/", "/">>)
            /\ (Contains(xpath, <<"t", "r", "[">>) \/ Contains(xpath, <<"t", "d", "[">>)) THEN 4
    ELSE IF Contains(xpath, <<"/", "/", "f", "o", "r", "m", "/", "/">>) THEN 4
    ELSE IF /\ \/ Contains(xpath, <<"/", "/", "t", "a", "b", "l", "e", "/", "/">>)
               \/ Contains(xpath, <<"/", "/", "f", "o", "r", "m", "/", "/">>)
               \/ Contains(xpath, <<"/", "/", "n", "a", "v", "/", "/">>)
            /\ Contains(xpath, <<"t", "e", "x", "t", "(", ")">>) THEN 5
    ELSE IF Contains(xpath, <<"@", "c", "l", "a", "s", "s", "=">>) \/ Contains(xpath, <<"c", "o", "n", "t", "a", "i", "n", "s", "(", "@", "c", "l", "a", "s", "s">>) THEN 6
    ELSE IF Contains(xpath, <<"t", "e", "x", "t", "(", ")">>) \/ Contains(xpath, <<"c", "o", "n", "t", "a", "i", "n", "s", "(", "t", "e", "x", "t", "(", ")">>) THEN 7
    ELSE IF HasChar(xpath, "[") /\ HasChar(xpath, "]") /\ CountChar(xpath, "[") > 1 THEN 8
    ELSE 5

\* SelectorGenerator._determine_xpath_strategy
DetermineXPathStrategy(xpath) ==
    IF StartsWith(xpath, <<"/", "h", "t", "m", "l", "/", "b", "o", "d", "y">>) THEN <<"a", "b", "s", "o", "l", "u", "t", "e", "-", "f", "a", "l", "l", "b", "a", "c", "k">>
    ELSE IF Contains(xpath, <<"@", "i", "d", "=">>) \/ Contains(xpath, <<"@", "i", "d", " ", "=">>) THEN <<"i", "d", "-", "b", "a", "s", "e", "d">>
    ELSE IF Contains(xpath, <<"@", "n", "a", "m", "e", "=">>) \/ Contains(xpath, <<"@", "n", "a", "m", "e", " ", "=">>) THEN <<"n", "a", "m", "e", "-", "b", "a", "s", "e", "d">>
    ELSE IF Contains(xpath, <<"@", "d", "a", "t", "a", "-">>) THEN <<"d", "a", "t", "a", "-", "a", "t", "t", "r", "i", "b", "u", "t", "e">>
    ELSE IF Contains(xpath, <<"@", "a", "r", "i", "a", "-", "l", "a", "b", "e", "l", "=">>) \/ Contains(xpath, <<"@", "a", "r", "i", "a", "-", "l", "a", "b", "e", "l", "l", "e", "d", "b", "y", "=">>)
         THEN <<"a", "r", "i", "a", "-", "b", "a", "s", "e", "d">>
    ELSE IF Contains(xpath, <<"@", "r", "o", "l", "e", "=">>) THEN <<"r", "o", "l", "e", "-", "b", "a", "s", "e", "d">>
    ELSE IF /\ Contains(xpath, <<"/", "/", "t", "a", "b", "l", "e", "/", "/">>)
            /\ (Contains(xpath, <<"t", "r", "[">>) \/ Contains(xpath, <<"t", "d", "[">>)) THEN <<"t", "a", "b", "l", "e", "-", "a", "n", "c", "h", "o", "r", "e", "d">>
    ELSE IF Contains(xpath, <<"/", "/", "f", "o", "r", "m", "/", "/">>) THEN <<"f", "o", "r", "m", "-", "a", "n", "c", "h", "o", "r", "e", "d">>
    ELSE IF Contains(xpath, <<"/", "/", "n", "a", "v", "/", "/">>) THEN <<"n", "a", "v", "-", "a", "n", "c", "h", "o", "r", "e", "d">>
    ELSE IF Contains(xpath, <<"t", "e", "x", "t", "(", ")", "=">>) THEN <<"t", "e", "x", "t", "-", "e", "x", "a", "c", "t">>
    ELSE IF Contains(xpath, <<"c", "o", "n", "t", "a", "i", "n", "s", "(", "t", "e", "x", "t", "(", ")">>) THEN <<"t", "e", "x", "t", "-", "c", "o", "n", "t", "a", "i", "n", "s">>
    ELSE IF Contains(xpath, <<"@", "c", "l", "a", "s", "s", "=">>) \/ Contains(xpath, <<"c", "o", "n", "t", "a", "i", "n", "s", "(", "@", "c", "l", "a", "s", "s">>)
         THEN <<"c", "l", "a", "s", "s", "-", "b", "a", "s", "e", "d">>
    ELSE IF HasChar(xpath, "[") /\ HasChar(xpath, "]") THEN <<"p", "o", "s", "i", "t", "i", "o", "n", "a", "l">>
    ELSE <<"r", "e", "l", "a", "t", "i", "v", "e", "-", "x", "p", "a", "t", "h">>

\* lines 118-194: the semantic strategies, in the order they are appended
SemanticStrategies(tag, text, attrs) ==
    LET role == InferRole(tag, attrs)
        ByAttr(type, name, priority) ==
            IF AttrGet(attrs, name) # <<>>
            THEN << SelectorStrategy(type, AttrGet(attrs, name), priority, Metadata(tag)) >>
            ELSE <<>>
    IN  (IF text # <<>>
         THEN << SelectorStrategy("text_exact", text, 1, Metadata(tag)) >>
         ELSE <<>>)
        \o (IF role # <<>> /\ role[1] # <<>> /\ text # <<>>
            THEN << SelectorStrategy("role_text", text, 2,
                                     [Metadata(tag) EXCEPT !.role = role[1]]) >>
            ELSE <<>>)
        \o ByAttr("aria_label", <<"a", "r", "i", "a", "-", "l", "a", "b", "e", "l">>, 3)
        \o ByAttr("placeholder", <<"p", "l", "a", "c", "e", "h", "o", "l", "d", "e", "r">>, 4)
        \o ByAttr("title", <<"t", "i", "t", "l", "e">>, 5)
        \o ByAttr("alt_text", <<"a", "l", "t">>, 6)
        \o (IF text # <<>> /\ Len(text) > 3
            THEN << SelectorStrategy("text_fuzzy", text, 7,
                                     [Metadata(tag) EXCEPT !.threshold = <<80>>]) >>
            ELSE <<>>)

\* a loop that skips every copy of the absolute path, the last one included
OptimizedStrategiesSkipAbsolute(tag, absolute_xpath, optimized_xpaths) ==
    LET n == Len(optimized_xpaths)
        One(k) ==
            LET opt_xpath == optimized_xpaths[k]
            IN  IF opt_xpath = absolute_xpath THEN <<>>
                ELSE << SelectorStrategy("xpath", opt_xpath,
                            CalculateXPathPriority(opt_xpath, opt_xpath = absolute_xpath),
                            [Metadata(tag) EXCEPT
                                !.strategy = DetermineXPathStrategy(opt_xpath),
                                !.optimized = TRUE,
                                !.index = <<k - 1>>]) >>
        RECURSIVE All(_)
        All(k) == IF k > n THEN <<>> ELSE One(k) \o All(k + 1)
    IN  All(1)

\* a loop that scores every entry without the is_absolute flag
OptimizedStrategiesUnflagged(tag, absolute_xpath, optimized_xpaths) ==
    LET n == Len(optimized_xpaths)
        One(k) ==
            LET opt_xpath == optimized_xpaths[k]
            IN  IF opt_xpath = absolute_xpath /\ k - 1 < n - 1 THEN <<>>
                ELSE << SelectorStrategy("xpath", opt_xpath,
                            CalculateXPathPriority(opt_xpath, FALSE),
                            [Metadata(tag) EXCEPT
                                !.strategy = DetermineXPathStrategy(opt_xpath),
                                !.optimized = TRUE,
                                !.index = <<k - 1>>]) >>
        RECURSIVE All(_)
        All(k) == IF k > n THEN <<>> ELSE One(k) \o All(k + 1)
    IN  All(1)

\* lines 219-242: one xpath strategy per entry of the optimizer's list, a copy
\* of the absolute path before the last position being skipped
OptimizedStrategies(tag, absolute_xpath, optimized_xpaths) ==
    LET n == Len(optimized_xpaths)
        One(k) ==
            LET opt_xpath == optimized_xpaths[k]
            IN  IF opt_xpath = absolute_xpath /\ k - 1 < n - 1 THEN <<>>
                ELSE << SelectorStrategy("xpath", opt_xpath,
                            CalculateXPathPriority(opt_xpath, opt_xpath = absolute_xpath),
                            [Metadata(tag) EXCEPT
                                !.strategy = DetermineXPathStrategy(opt_xpath),
                                !.optimized = TRUE,
                                !.index = <<k - 1>>]) >>
        RECURSIVE All(_)
        All(k) == IF k > n THEN <<>> ELSE One(k) \o All(k + 1)
    IN  All(1)

\* a fallback scored with the base priority of the optimized expressions
FallbackStrategyBasePriority(tag, xpath) ==
    IF xpath # <<>> /\ xpath[1] # <<>>
    THEN << SelectorStrategy("xpath", xpath[1], 3, [Metadata(tag) EXCEPT !.fallback = TRUE]) >>
    ELSE <<>>

\* lines 246-255, 258-267, 272-280: a single expression at priority 8
FallbackStrategy(tag, xpath) ==
    IF xpath # <<>> /\ xpath[1] # <<>>
    THEN << SelectorStrategy("xpath", xpath[1], 8, [Metadata(tag) EXCEPT !.fallback = TRUE]) >>
    ELSE <<>>

\* optimize_xpath raises at `max_alternatives <= 1` when max_alternatives is
\* None (<<>>): a TypeError
OptimizeXPathRaises(max_xpath_alternatives) == max_xpath_alternatives = <<>>

\* an except branch that keeps the captured absolute path, scored as the
\* optimizer's last entry, instead of synthesizing an expression
XPathStrategiesAbsoluteOnRaise(element_data, tag, text, attrs, include_xpath_fallback, enable_xpath_optimization, max_xpath_alternatives) ==
    IF ~include_xpath_fallback THEN <<>>
    ELSE IF enable_xpath_optimization
         THEN LET path == GetOr(element_data.xpath, <<>>)
              IN  IF path # <<>>
                  THEN IF OptimizeXPathRaises(max_xpath_alternatives)
                       THEN OptimizedStrategies(tag, path, <<path>>)
                       ELSE OptimizedStrategies(tag, path,
                                OptimizeXPath(path, Info(<<tag>>, <<text>>, <<attrs>>),
                                              max_xpath_alternatives[1]))
                  ELSE FallbackStrategy(tag, GenerateXPath(tag, text, attrs))
    ELSE FallbackStrategy(tag,
             IF GetOr(element_data.xpath, <<>>) # <<>> THEN element_data.xpath
             ELSE GenerateXPath(tag, text, attrs))

\* lines 196-280: the path-expression strategies
XPathStrategies(element_data, tag, text, attrs, include_xpath_fallback, enable_xpath_optimization, max_xpath_alternatives) ==
    IF ~include_xpath_fallback THEN <<>>
    ELSE IF enable_xpath_optimization
         THEN LET path == GetOr(element_data.xpath, <<>>)
              IN  IF path # <<>>
                  THEN IF OptimizeXPathRaises(max_xpath_alternatives)
                       THEN FallbackStrategy(tag, GenerateXPath(tag, text, attrs))
                       ELSE OptimizedStrategies(tag, path,
                                OptimizeXPath(path, Info(<<tag>>, <<text>>, <<attrs>>),
                                              max_xpath_alternatives[1]))
                  ELSE FallbackStrategy(tag, GenerateXPath(tag, text, attrs))
    ELSE FallbackStrategy(tag,
             IF GetOr(element_data.xpath, <<>>) # <<>> THEN element_data.xpath
             ELSE GenerateXPath(tag, text, attrs))

\* strategies.sort(key=lambda s: s.priority): a stable sort
RECURSIVE InsertStrategy(_, _)
InsertStrategy(sorted, s) ==
    IF sorted = <<>> THEN <<s>>
    ELSE IF Head(sorted).priority <= s.priority
         THEN <<Head(sorted)>> \o InsertStrategy(Tail(sorted), s)
         ELSE <<s>> \o sorted

\* a list left in the order the strategies were appended
SortStrategiesAppendOrder(strats) == strats

RECURSIVE SortStrategies(_)
SortStrategies(strats) ==
    IF strats = <<>> THEN <<>>
    ELSE InsertStrategy(SortStrategies(SubSeq(strats, 1, Len(strats) - 1)),
                        strats[Len(strats)])

\* strats[:n] for any integer n
Prefix(strats, n) ==
    IF n >= 0 THEN SubSeq(strats, 1, Min(n, Len(strats)))
    ELSE SubSeq(strats, 1, Max(Len(strats) + n, 0))

\* a cap that keeps the last entries instead of the first
LimitTotalKeepLast(strats, max_total_strategies) ==
    IF /\ max_total_strategies # <<>>
       /\ max_total_strategies[1] # 0
       /\ Len(strats) > max_total_strategies[1]
    THEN SubSeq(strats, Len(strats) - Max(max_total_strategies[1], 0) + 1, Len(strats))
    ELSE strats

\* lines 285-288: the total cap; None (<<>>) and 0 are falsy and cap nothing
LimitTotal(strats, max_total_strategies) ==
    IF /\ max_total_strategies # <<>>
       /\ max_total_strategies[1] # 0
       /\ Len(strats) > max_total_strategies[1]
    THEN Prefix(strats, max_total_strategies[1])
    ELSE strats

\* lines 113-280: every strategy appended, before the sort
CollectStrategies(element_data, include_xpath_fallback, enable_xpath_optimization, max_xpath_alternatives) ==
    LET tag == Lower(GetOr(element_data.tag_name, <<>>))
        text == Strip(GetOr(element_data.text, <<>>))
        attrs == GetOr(element_data.attributes, <<>>)
    IN  SemanticStrategies(tag, text, attrs)
        \o XPathStrategies(element_data, tag, text, attrs, include_xpath_fallback,
                           enable_xpath_optimization, max_xpath_alternatives)

\* a generator that applies the total cap before the sort
GenerateStrategiesCapBeforeSort(element_data, include_xpath_fallback, enable_xpath_optimization, max_xpath_alternatives, max_total_strategies) ==
    SortStrategies(LimitTotal(CollectStrategies(element_data, include_xpath_fallback,
                                                enable_xpath_optimization,
                                                max_xpath_alternatives),
                              max_total_strategies))

\* SelectorGenerator.generate_strategies
GenerateStrategies(element_data, include_xpath_fallback, enable_xpath_optimization, max_xpath_alternatives, max_total_strategies) ==
    LimitTotal(SortStrategies(CollectStrategies(element_data, include_xpath_fallback,
                                                enable_xpath_optimization,
                                                max_xpath_alternatives)),
               max_total_strategies)

(***************************************************************************)
(* ElementFinder.find_element_with_strategies as a state machine.  One     *)
(* action per stretch of code between two awaits of a collaborator.  The   *)
(* page state (what the page handle, the snapshot provider and the path    *)
(* evaluator answer) is fixed the first time it is asked for, so that the  *)
(* successive calls of one behaviour see the same page.  The first call is *)
(* made without target_text, the later ones with any.                      *)
(***************************************************************************)
VARIABLES
    strategies,         \* argument: the strategy list
    target_text,        \* argument: target_text, NoneStr when not given
    pc,                 \* "start", "get_map", "loop", "done"
    selector_map,       \* <<>> for None, else <<mapping>>
    sorted_strategies,
    i,                  \* enumerate(sorted_strategies, 1)
    strategy_attempts,  \* the audit list
    result,             \* <<>> for None, else <<match>>
    pageEnv,            \* what get_current_page does on this page
    mapEnv,             \* what get_selector_map does on this page
    evalEnv,            \* what page.evaluate does, per normalized expression
    awaits,             \* awaited collaborator calls of the current call
    evals,              \* loop positions at which page.evaluate was awaited
    tried,              \* loop positions at which a strategy was attempted
    calls,              \* number of calls started
    prev                \* outcome of the previous call, <<>> if none

locVars ==
    <<strategies, target_text, pc, selector_map, sorted_strategies, i,
      strategy_attempts, result, pageEnv, mapEnv, evalEnv, awaits, evals, tried,
      calls, prev>>

\* XPathOptimizer.optimize_xpath: its arguments and the list it returns
VARIABLES
    absolute_xpath,      \* argument
    element_info,        \* argument: <<>> for None
    max_alternatives,    \* argument
    unique_alternatives, \* the list returned
    optPc                \* "call", "returned"

optVars == <<absolute_xpath, element_info, max_alternatives, unique_alternatives, optPc>>

\* SelectorGenerator: its configuration, the arguments of generate_strategies
\* and the list it returns
VARIABLES
    element_data,               \* argument
    include_xpath_fallback,     \* argument
    enable_xpath_optimization,  \* configuration
    max_xpath_alternatives,     \* configuration: <<>> for None
    max_total_strategies,       \* configuration: <<>> for None
    gen_strategies,             \* the list returned
    genPc                       \* "call", "returned"

genVars ==
    <<element_data, include_xpath_fallback, enable_xpath_optimization,
      max_xpath_alternatives, max_total_strategies, gen_strategies, genPc>>

\* ElementFinder._matches_strategy on a text_fuzzy strategy
VARIABLES
    fuzzy_value,      \* argument value
    fuzzy_text,       \* the node's text
    fuzzy_threshold,  \* metadata.get('threshold'): <<>> when absent
    fuzzy_matched,    \* the value returned
    fuzzyPc           \* "call", "returned"

fuzzyVars == <<fuzzy_value, fuzzy_text, fuzzy_threshold, fuzzy_matched, fuzzyPc>>

\* escape_xpath_string and SelectorGenerator._escape_xpath_value applied to
\* one text value; a result is <<>> until the function was called
VARIABLES
    escape_input,    \* argument of both functions
    escaped_string,  \* <<what escape_xpath_string returned>>
    escaped_value    \* <<what _escape_xpath_value returned>>

escapeVars == <<escape_input, escaped_string, escaped_value>>

\* XPathOptimizer._parse_xpath applied to a path and _shorten_absolute_xpath
\* applied to the parts it returned; a result is <<>> until the function was
\* called
VARIABLES
    path_input,      \* argument of _parse_xpath
    path_parts,      \* <<the list _parse_xpath returned>>
    path_shortened   \* <<what _shorten_absolute_xpath returned>>, None being <<>>

pathVars == <<path_input, path_parts, path_shortened>>

\* SelectorGenerator._calculate_xpath_priority and _determine_xpath_strategy
\* applied to one path expression; a result is <<>> until the function was
\* called
VARIABLES
    scored_xpath,     \* argument xpath of both functions
    scored_absolute,  \* argument is_absolute of _calculate_xpath_priority
    xpath_priority,   \* <<what _calculate_xpath_priority returned>>
    xpath_strategy    \* <<what _determine_xpath_strategy returned>>

scoreVars == <<scored_xpath, scored_absolute, xpath_priority, xpath_strategy>>

\* the variables of the calls of single helper functions
helperVars == <<escapeVars, pathVars, scoreVars>>

XPathKeys == {NormalizeXPath(s.value) : s \in {t \in StrategyPool : t.type = "xpath"}}

Outcome == [result |-> result,
            flags |-> [k \in 1..Len(strategy_attempts) |-> strategy_attempts[k].success],
            target_text |-> target_text]

LocInit ==
    /\ strategies \in StrategyLists
    /\ target_text = NoneStr
    /\ pc = "start"
    /\ selector_map = <<>>
    /\ sorted_strategies = <<>>
    /\ i = 0
    /\ strategy_attempts = <<>>
    /\ result = <<>>
    /\ pageEnv = "unset"
    /\ mapEnv = [outcome |-> "unset", map |-> <<>>]
    /\ evalEnv = [x \in XPathKeys |-> "unset"]
    /\ awaits = 0
    /\ evals = <<>>
    /\ tried = <<>>
    /\ calls = 1
    /\ prev = <<>>

\* an empty-list check made only after the page handle was fetched
ReturnEmptyAfterFetch ==
    /\ pc = "start"
    /\ strategies = <<>>
    /\ strategy_attempts' = <<>>
    /\ result' = <<>>
    /\ pc' = "done"
    /\ awaits' = awaits + 1
    /\ UNCHANGED <<strategies, target_text, selector_map, sorted_strategies, i,
                   pageEnv, mapEnv, evalEnv, evals, tried, calls, prev>>
    /\ UNCHANGED <<optVars, genVars, fuzzyVars, helperVars>>

\* lines 52-55: an empty list returns at once
ReturnEmpty ==
    /\ pc = "start"
    /\ strategies = <<>>
    /\ strategy_attempts' = <<>>
    /\ result' = <<>>
    /\ pc' = "done"
    /\ UNCHANGED <<strategies, target_text, selector_map, sorted_strategies, i,
                   pageEnv, mapEnv, evalEnv, awaits, evals, tried, calls, prev>>
    /\ UNCHANGED <<optVars, genVars, fuzzyVars, helperVars>>

\* lines 57-65: await get_current_page(); no page, or a raise, returns None
GetCurrentPage ==
    /\ pc = "start"
    /\ strategies # <<>>
    /\ \E o \in PageOutcomes :
          /\ pageEnv \in {"unset", o}
          /\ pageEnv' = o
          /\ pc' = IF o = "page" THEN "get_map" ELSE "done"
    /\ awaits' = awaits + 1
    /\ strategy_attempts' = <<>>
    /\ result' = <<>>
    /\ UNCHANGED <<strategies, target_text, selector_map, sorted_strategies, i,
                   mapEnv, evalEnv, evals, tried, calls, prev>>
    /\ UNCHANGED <<optVars, genVars, fuzzyVars, helperVars>>

\* lines 67-77: await get_selector_map(), then sort
GetSelectorMap ==
    /\ pc = "get_map"
    /\ \E o \in MapOutcomes, m \in Snapshots :
          /\ mapEnv.outcome = "unset" \/ mapEnv = [outcome |-> o, map |-> m]
          /\ o # "map" => m = <<>>
          /\ mapEnv' = [outcome |-> o, map |-> m]
          /\ selector_map' = IF o = "map" THEN <<m>> ELSE <<>>
    /\ awaits' = awaits + 1
    /\ sorted_strategies' = SortedByPriority(strategies)
    /\ i' = 1
    /\ pc' = "loop"
    /\ UNCHANGED <<strategies, target_text, strategy_attempts, result, pageEnv,
                   evalEnv, evals, tried, calls, prev>>
    /\ UNCHANGED <<optVars, genVars, fuzzyVars, helperVars>>

\* a return of the match that leaves the audit list as it was
SucceedUnrecorded(strategy, match) ==
    /\ strategy_attempts' = strategy_attempts
    /\ result' = <<match>>
    /\ pc' = "done"
    /\ i' = i
    /\ tried' = Append(tried, i)

\* lines 96-107 / 129-138: record the successful attempt and return the match
Succeed(strategy, match) ==
    /\ strategy_attempts' = Append(strategy_attempts, StrategyAttempt(strategy, TRUE, "None"))
    /\ result' = <<match>>
    /\ pc' = "done"
    /\ i' = i
    /\ tried' = Append(tried, i)

\* lines 155-169: record the failed attempt; after the last one return None
Fail(strategy, error_msg) ==
    /\ strategy_attempts' = Append(strategy_attempts, StrategyAttempt(strategy, FALSE, error_msg))
    /\ result' = <<>>
    /\ i' = i + 1
    /\ pc' = IF i = Len(sorted_strategies) THEN "done" ELSE "loop"
    /\ tried' = Append(tried, i)

\* lines 90-110: a path-expression strategy, one await of page.evaluate
TryXPath ==
    /\ pc = "loop"
    /\ sorted_strategies[i].type = "xpath"
    /\ LET strategy == sorted_strategies[i]
           key == NormalizeXPath(strategy.value)
       IN  \E o \in EvalOutcomes :
              /\ evalEnv[key] \in {"unset", o}
              /\ evalEnv' = [evalEnv EXCEPT ![key] = o]
              /\ LET found == FindWithXPath(strategy.value, o)
                 IN  IF found # <<>>
                     THEN Succeed(strategy, [kind |-> "xpath", index |-> 0,
                                             xpath |-> found[1], strategy |-> strategy])
                     ELSE Fail(strategy, "XPath query returned no results")
    /\ awaits' = awaits + 1
    /\ evals' = Append(evals, i)
    /\ UNCHANGED <<strategies, target_text, selector_map, sorted_strategies,
                   pageEnv, mapEnv, calls, prev>>
    /\ UNCHANGED <<optVars, genVars, fuzzyVars, helperVars>>

\* lines 113-141: a semantic strategy against the selector map
TrySemantic ==
    /\ pc = "loop"
    /\ sorted_strategies[i].type # "xpath"
    /\ MapAvailable(selector_map)
    /\ sorted_strategies[i].type \in SemanticTypes
    /\ LET strategy == sorted_strategies[i]
           found == FindWithSemanticStrategy(strategy.type, strategy.value,
                        strategy.metadata, selector_map[1], target_text)
       IN  IF found # <<>>
           THEN Succeed(strategy, [kind |-> "index", index |-> found[1].index,
                                   xpath |-> <<>>, strategy |-> strategy])
           ELSE Fail(strategy, "No matching element found in DOM")
    /\ UNCHANGED <<strategies, target_text, selector_map, sorted_strategies,
                   pageEnv, mapEnv, evalEnv, awaits, evals, calls, prev>>
    /\ UNCHANGED <<optVars, genVars, fuzzyVars, helperVars>>

\* a loop that gives up at the first semantic strategy when there is no
\* selector map, without recording the attempt
TryUnsupportedGivesUp ==
    /\ pc = "loop"
    /\ sorted_strategies[i].type # "xpath"
    /\ ~(MapAvailable(selector_map) /\ sorted_strategies[i].type \in SemanticTypes)
    /\ IF ~MapAvailable(selector_map)
       THEN /\ result' = <<>>
            /\ pc' = "done"
            /\ UNCHANGED <<strategy_attempts, i, tried>>
       ELSE Fail(sorted_strategies[i], "Strategy type not supported")
    /\ UNCHANGED <<strategies, target_text, selector_map, sorted_strategies,
                   pageEnv, mapEnv, evalEnv, awaits, evals, calls, prev>>
    /\ UNCHANGED <<optVars, genVars, fuzzyVars, helperVars>>

\* lines 143-149: no selector map, or a type the locator does not know
TryUnsupported ==
    /\ pc = "loop"
    /\ sorted_strategies[i].type # "xpath"
    /\ ~(MapAvailable(selector_map) /\ sorted_strategies[i].type \in SemanticTypes)
    /\ Fail(sorted_strategies[i],
            IF ~MapAvailable(selector_map)
            THEN "Selector map not available for semantic strategy"
            ELSE "Strategy type not supported")
    /\ UNCHANGED <<strategies, target_text, selector_map, sorted_strategies,
                   pageEnv, mapEnv, evalEnv, awaits, evals, calls, prev>>
    /\ UNCHANGED <<optVars, genVars, fuzzyVars, helperVars>>

\* the caller locates again on the same page, with the same strategies and
\* any target_text
NextCall ==
    /\ pc = "done"
    /\ calls < MaxCalls
    /\ prev' = <<Outcome>>
    /\ calls' = calls + 1
    /\ target_text' \in TargetTexts
    /\ pc' = "start"
    /\ selector_map' = <<>>
    /\ sorted_strategies' = <<>>
    /\ i' = 0
    /\ strategy_attempts' = <<>>
    /\ result' = <<>>
    /\ awaits' = 0
    /\ evals' = <<>>
    /\ tried' = <<>>
    /\ UNCHANGED <<strategies, pageEnv, mapEnv, evalEnv>>
    /\ UNCHANGED <<optVars, genVars, fuzzyVars, helperVars>>

Next ==
    \/ ReturnEmpty
    \/ GetCurrentPage
    \/ GetSelectorMap
    \/ TryXPath
    \/ TrySemantic
    \/ TryUnsupported
    \/ NextCall

(***************************************************************************)
(* XPathOptimizer.optimize_xpath as a call: the arguments are drawn from   *)
(* the sets below, Optimize applies the function.                          *)
(***************************************************************************)
MaxAlternatives == 4

AbsolutePaths ==
    { \* '/html/body/a'
      <<"/", "h", "t", "m", "l", "/", "b", "o", "d", "y", "/", "a">>,
      \* '/html/body/form/div[3]/table/tbody/tr[2]/td[3]/a'
      <<"/", "h", "t", "m", "l", "/", "b", "o", "d", "y", "/", "f", "o", "r", "m", "/", "d", "i", "v", "[", "3", "]", "/", "t", "a", "b", "l", "e", "/", "t", "b", "o", "d", "y", "/", "t", "r", "[", "2", "]", "/", "t", "d", "[", "3", "]", "/", "a">>,
      \* '/html/body/div/div/div/span'
      <<"/", "h", "t", "m", "l", "/", "b", "o", "d", "y", "/", "d", "i", "v", "/", "d", "i", "v", "/", "d", "i", "v", "/", "s", "p", "a", "n">>,
      \* '/nav/nav/a'
      <<"/", "n", "a", "v", "/", "n", "a", "v", "/", "a">>,
      \* "//a[@id='x']", what the optimizer itself generates for id 'x'
      <<"/", "/", "a", "[", "@", "i", "d", "=", "'", "x", "'", "]">>,
      \* 'div[01]/a'
      <<"d", "i", "v", "[", "0", "1", "]", "/", "a">> }

ElementInfos ==
    { \* None
      <<>>,
      \* {}
      <<EmptyDict>>,
      \* {'tag': 'a', 'text': 'Lic 1', 'attributes': {'class': 'css-1 link', 'href': '/l'}}
      Info(<<<<"a">>>>, <<<<"L", "i", "c", " ", "1">>>>,
           << << <<<<"c", "l", "a", "s", "s">>, <<"c", "s", "s", "-", "1", " ", "l", "i", "n", "k">>>>, <<<<"h", "r", "e", "f">>, <<"/", "l">>>> >> >>),
      \* {'tag': 'A', 'attributes': {'id': 'x', 'name': 'n'}}
      Info(<<<<"A">>>>, <<>>, << << <<<<"i", "d">>, <<"x">>>>, <<<<"n", "a", "m", "e">>, <<"n">>>> >> >>),
      \* {'tag': 'a', 'text': 'it\'s "x"', 'attributes': {'data-k': 'v', 'role': 'link'}}
      Info(<<<<"a">>>>, <<<<"i", "t", "'", "s", " ", "\"", "x", "\"">>>>,
           << << <<<<"d", "a", "t", "a", "-", "k">>, <<"v">>>>, <<<<"r", "o", "l", "e">>, <<"l", "i", "n", "k">>>> >> >>),
      \* {'text': ' Go '}
      Info(<<>>, <<<<" ", "G", "o", " ">>>>, <<>>) }

OptInit ==
    /\ absolute_xpath \in AbsolutePaths
    /\ element_info \in ElementInfos
    /\ max_alternatives \in (-1)..MaxAlternatives
    /\ unique_alternatives = <<>>
    /\ optPc = "call"

Optimize ==
    /\ optPc = "call"
    /\ unique_alternatives' = OptimizeXPath(absolute_xpath, element_info, max_alternatives)
    /\ optPc' = "returned"
    /\ UNCHANGED <<absolute_xpath, element_info, max_alternatives>>
    /\ UNCHANGED <<locVars, genVars, fuzzyVars, helperVars>>

\* no optimizer call in progress
OptIdle ==
    /\ absolute_xpath = <<>>
    /\ element_info = <<>>
    /\ max_alternatives = 0
    /\ unique_alternatives = <<>>
    /\ optPc = "idle"

\* no locate call in progress
LocIdle ==
    /\ strategies = <<>>
    /\ target_text = NoneStr
    /\ pc = "idle"
    /\ selector_map = <<>>
    /\ sorted_strategies = <<>>
    /\ i = 0
    /\ strategy_attempts = <<>>
    /\ result = <<>>
    /\ pageEnv = "unset"
    /\ mapEnv = [outcome |-> "unset", map |-> <<>>]
    /\ evalEnv = [x \in XPathKeys |-> "unset"]
    /\ awaits = 0
    /\ evals = <<>>
    /\ tried = <<>>
    /\ calls = 0
    /\ prev = <<>>

(***************************************************************************)
(* SelectorGenerator.generate_strategies as a call: the generator's        *)
(* configuration and the arguments are drawn from the sets below, Generate *)
(* applies the function.                                                   *)
(***************************************************************************)
MaxTotalStrategies == 3

ElementData(tag_name, text, attributes, xpath) ==
    [tag_name |-> tag_name, text |-> text, attributes |-> attributes, xpath |-> xpath]

ElementDatas ==
    {
      \* {'tag_name': 'button', 'text': ' Submit ', 'attributes': {'aria-label': 'Go', 'title': 'Tip', 'id': 'b'}, 'xpath': '/html/body/button'}
      ElementData(<< <<"b", "u", "t", "t", "o", "n">> >>, << <<" ", "S", "u", "b", "m", "i", "t", " ">> >>,
                  << << <<<<"a", "r", "i", "a", "-", "l", "a", "b", "e", "l">>, <<"G", "o">>>>, <<<<"t", "i", "t", "l", "e">>, <<"T", "i", "p">>>>, <<<<"i", "d">>, <<"b">>>> >> >>,
                  << <<"/", "h", "t", "m", "l", "/", "b", "o", "d", "y", "/", "b", "u", "t", "t", "o", "n">> >>),
      \* {'tag_name': 'button', 'text': 'OK', 'attributes': {}}
      ElementData(<< <<"b", "u", "t", "t", "o", "n">> >>, << <<"O", "K">> >>,
                  << <<>> >>,
                  <<>>),
      \* {'tag_name': 'div', 'text': '', 'attributes': {}}
      ElementData(<< <<"d", "i", "v">> >>, << <<>> >>,
                  << <<>> >>,
                  <<>>),
      \* {'tag_name': 'input', 'text': '', 'attributes': {'placeholder': 'Mail', 'type': 'Submit', 'name': 'q'}, 'xpath': '/html/body/form/input[2]'}
      ElementData(<< <<"i", "n", "p", "u", "t">> >>, << <<>> >>,
                  << << <<<<"p", "l", "a", "c", "e", "h", "o", "l", "d", "e", "r">>, <<"M", "a", "i", "l">>>>, <<<<"t", "y", "p", "e">>, <<"S", "u", "b", "m", "i", "t">>>>, <<<<"n", "a", "m", "e">>, <<"q">>>> >> >>,
                  << <<"/", "h", "t", "m", "l", "/", "b", "o", "d", "y", "/", "f", "o", "r", "m", "/", "i", "n", "p", "u", "t", "[", "2", "]">> >>),
      \* {'tag_name': 'img', 'text': '', 'attributes': {'alt': 'Logo', 'data-k': ''}, 'xpath': ''}
      ElementData(<< <<"i", "m", "g">> >>, << <<>> >>,
                  << << <<<<"a", "l", "t">>, <<"L", "o", "g", "o">>>>, <<<<"d", "a", "t", "a", "-", "k">>, <<>>>> >> >>,
                  << <<>> >>),
      \* {'tag_name': 'A', 'text': 'Lic 1', 'attributes': {'class': 'css-1 link', 'role': ''}, 'xpath': '/html/body/form/div[3]/table/tbody/tr[2]/td[3]/a'}
      ElementData(<< <<"A">> >>, << <<"L", "i", "c", " ", "1">> >>,
                  << << <<<<"c", "l", "a", "s", "s">>, <<"c", "s", "s", "-", "1", " ", "l", "i", "n", "k">>>>, <<<<"r", "o", "l", "e">>, <<>>>> >> >>,
                  << <<"/", "h", "t", "m", "l", "/", "b", "o", "d", "y", "/", "f", "o", "r", "m", "/", "d", "i", "v", "[", "3", "]", "/", "t", "a", "b", "l", "e", "/", "t", "b", "o", "d", "y", "/", "t", "r", "[", "2", "]", "/", "t", "d", "[", "3", "]", "/", "a">> >>),
      \* {}
      ElementData(<<>>, <<>>,
                  <<>>,
                  <<>>),
      \* {'tag_name': 'span', 'text': 'Okay', 'attributes': {'role': 'button', 'aria-label': ''}, 'xpath': 'div[01]/a'}
      ElementData(<< <<"s", "p", "a", "n">> >>, << <<"O", "k", "a", "y">> >>,
                  << << <<<<"r", "o", "l", "e">>, <<"b", "u", "t", "t", "o", "n">>>>, <<<<"a", "r", "i", "a", "-", "l", "a", "b", "e", "l">>, <<>>>> >> >>,
                  << <<"d", "i", "v", "[", "0", "1", "]", "/", "a">> >>),
      \* {'tag_name': 'h2', 'text': 'Yes', 'attributes': {'title': 'Tip', 'alt': 'Logo', 'placeholder': 'Mail', 'aria-label': 'Go'}}
      ElementData(<< <<"h", "2">> >>, << <<"Y", "e", "s">> >>,
                  << << <<<<"t", "i", "t", "l", "e">>, <<"T", "i", "p">>>>, <<<<"a", "l", "t">>, <<"L", "o", "g", "o">>>>, <<<<"p", "l", "a", "c", "e", "h", "o", "l", "d", "e", "r">>, <<"M", "a", "i", "l">>>>, <<<<"a", "r", "i", "a", "-", "l", "a", "b", "e", "l">>, <<"G", "o">>>> >> >>,
                  <<>>),
      \* {'tag_name': 'a', 'text': 'it\'s "x"', 'attributes': {'data-k': 'v'}, 'xpath': '/nav/nav/a'}
      ElementData(<< <<"a">> >>, << <<"i", "t", "'", "s", " ", "\"", "x", "\"">> >>,
                  << << <<<<"d", "a", "t", "a", "-", "k">>, <<"v">>>> >> >>,
                  << <<"/", "n", "a", "v", "/", "n", "a", "v", "/", "a">> >>),
      \* {'tag_name': 'li', 'text': 'Item', 'attributes': {'data-k': '', 'aria-label': 'Go'}}
      ElementData(<< <<"l", "i">> >>, << <<"I", "t", "e", "m">> >>,
                  << << <<<<"d", "a", "t", "a", "-", "k">>, <<>>>>, <<<<"a", "r", "i", "a", "-", "l", "a", "b", "e", "l">>, <<"G", "o">>>> >> >>,
                  <<>>),
      \* {'tag_name': 'input', 'text': '', 'attributes': {'name': 'q', 'id': 'i', 'data-k': 'v'}}
      ElementData(<< <<"i", "n", "p", "u", "t">> >>, << <<>> >>,
                  << << <<<<"n", "a", "m", "e">>, <<"q">>>>, <<<<"i", "d">>, <<"i">>>>, <<<<"d", "a", "t", "a", "-", "k">>, <<"v">>>> >> >>,
                  <<>>),
      \* {'tag_name': '', 'text': '', 'attributes': {'data-a': '', 'data-b': 'v', 'placeholder': 'Mail'}}
      ElementData(<< <<>> >>, << <<>> >>,
                  << << <<<<"d", "a", "t", "a", "-", "a">>, <<>>>>, <<<<"d", "a", "t", "a", "-", "b">>, <<"v">>>>, <<<<"p", "l", "a", "c", "e", "h", "o", "l", "d", "e", "r">>, <<"M", "a", "i", "l">>>> >> >>,
                  <<>>),
      \* {'tag_name': 'input', 'text': 'Send', 'attributes': {'type': 'Submit'}}
      ElementData(<< <<"i", "n", "p", "u", "t">> >>, << <<"S", "e", "n", "d">> >>,
                  << << <<<<"t", "y", "p", "e">>, <<"S", "u", "b", "m", "i", "t">>>> >> >>,
                  <<>>),
      \* {'tag_name': 'INPUT', 'text': 'On', 'attributes': {'type': 'radio'}}
      ElementData(<< <<"I", "N", "P", "U", "T">> >>, << <<"O", "n">> >>,
                  << << <<<<"t", "y", "p", "e">>, <<"r", "a", "d", "i", "o">>>> >> >>,
                  <<>>),
      \* {'tag_name': 'input', 'text': 'All', 'attributes': {'type': 'checkbox', 'name': 'c'}}
      ElementData(<< <<"i", "n", "p", "u", "t">> >>, << <<"A", "l", "l">> >>,
                  << << <<<<"t", "y", "p", "e">>, <<"c", "h", "e", "c", "k", "b", "o", "x">>>>, <<<<"n", "a", "m", "e">>, <<"c">>>> >> >>,
                  <<>>),
      \* {'tag_name': 'input', 'text': 'Hi', 'attributes': {'type': 'text'}}
      ElementData(<< <<"i", "n", "p", "u", "t">> >>, << <<"H", "i">> >>,
                  << << <<<<"t", "y", "p", "e">>, <<"t", "e", "x", "t">>>> >> >>,
                  <<>>) }

\* max_xpath_alternatives: None, or an integer
XPathAlternativeCaps == {<<>>} \cup {<<n>> : n \in (-1)..MaxAlternatives}

\* max_total_strategies: None, or an integer
TotalCaps == {<<>>} \cup {<<n>> : n \in (-1)..MaxTotalStrategies}

GenInit ==
    /\ element_data \in ElementDatas
    /\ include_xpath_fallback \in BOOLEAN
    /\ enable_xpath_optimization \in BOOLEAN
    /\ max_xpath_alternatives \in XPathAlternativeCaps
    /\ max_total_strategies \in TotalCaps
    /\ gen_strategies = <<>>
    /\ genPc = "call"

Generate ==
    /\ genPc = "call"
    /\ gen_strategies' = GenerateStrategies(element_data, include_xpath_fallback,
                                            enable_xpath_optimization,
                                            max_xpath_alternatives, max_total_strategies)
    /\ genPc' = "returned"
    /\ UNCHANGED <<element_data, include_xpath_fallback, enable_xpath_optimization,
                   max_xpath_alternatives, max_total_strategies>>
    /\ UNCHANGED <<locVars, optVars, fuzzyVars, helperVars>>

\* no generator call in progress
GenIdle ==
    /\ element_data = ElementData(<<>>, <<>>, <<>>, <<>>)
    /\ include_xpath_fallback = FALSE
    /\ enable_xpath_optimization = FALSE
    /\ max_xpath_alternatives = <<>>
    /\ max_total_strategies = <<>>
    /\ gen_strategies = <<>>
    /\ genPc = "idle"

(***************************************************************************)
(* ElementFinder._matches_strategy for a text_fuzzy strategy as a call:    *)
(* the strategy value, the node's text and the metadata threshold (<<>>    *)
(* when the key is absent) are drawn from the sets below.                  *)
(***************************************************************************)
FuzzyValues ==
    { <<"S", "u", "b", "m", "i", "t">>, <<"S", "U", "B", "M", "I", "T">>, <<"s", "u", "b", "m", "i", "t">>, <<"O", "k">>, <<>> }

FuzzyTexts ==
    { <<"S", "u", "b", "m", "i", "t", "t">>, <<" ", "S", "U", "B", "M", "I", "T", "T", " ">>, <<"S", "u", "b", "m", "i", "t", " ", "F", "o", "r", "m">>, <<"s", "u", "b", "m", "i", "t", " ", "f", "o", "r", "m">>, <<"S", "u", "b", "m", "i", "t">>, <<"o", "K">>,
      <<>> }

FuzzyThresholds == { <<>>, <<70>>, <<80>>, <<100>> }

TextNode(text) == Node(text, NoneStr, NoneStr, NoneStr, NoneStr, <<>>, TRUE)

FuzzyInit ==
    /\ fuzzy_value \in FuzzyValues
    /\ fuzzy_text \in FuzzyTexts
    /\ fuzzy_threshold \in FuzzyThresholds
    /\ fuzzy_matched = FALSE
    /\ fuzzyPc = "call"

MatchFuzzy ==
    /\ fuzzyPc = "call"
    /\ fuzzy_matched' = MatchesStrategy(TextNode(fuzzy_text), "text_fuzzy", fuzzy_value,
                                        [role |-> NoneStr, threshold |-> fuzzy_threshold])
    /\ fuzzyPc' = "returned"
    /\ UNCHANGED <<fuzzy_value, fuzzy_text, fuzzy_threshold>>
    /\ UNCHANGED <<locVars, optVars, genVars, helperVars>>

\* no match call in progress
FuzzyIdle ==
    /\ fuzzy_value = <<>>
    /\ fuzzy_text = <<>>
    /\ fuzzy_threshold = <<>>
    /\ fuzzy_matched = FALSE
    /\ fuzzyPc = "idle"

(***************************************************************************)
(* escape_xpath_string (xpath_optimizer.py) and _escape_xpath_value        *)
(* (selector_generator.py) as calls on one text value, drawn from every    *)
(* string of at most MaxValueLen characters over a letter, a blank and the *)
(* two quotes.                                                             *)
(***************************************************************************)
MaxValueLen == 3

QuoteAlphabet == {"a", " ", "'", "\""}

EscapeInputs == SeqsUpTo(QuoteAlphabet, MaxValueLen)

EscapeInit ==
    /\ escape_input \in EscapeInputs
    /\ escaped_string = <<>>
    /\ escaped_value = <<>>

CallEscapeXPathString ==
    /\ escaped_string = <<>>
    /\ escaped_string' = <<EscapeXPathString(escape_input)>>
    /\ UNCHANGED <<escape_input, escaped_value>>
    /\ UNCHANGED <<locVars, optVars, genVars, fuzzyVars, pathVars, scoreVars>>

CallEscapeXPathValue ==
    /\ escaped_value = <<>>
    /\ escaped_value' = <<EscapeXPathValue(escape_input)>>
    /\ UNCHANGED <<escape_input, escaped_string>>
    /\ UNCHANGED <<locVars, optVars, genVars, fuzzyVars, pathVars, scoreVars>>

\* no escape call made
EscapeIdle ==
    /\ escape_input = <<>>
    /\ escaped_string = <<>>
    /\ escaped_value = <<>>

(***************************************************************************)
(* XPathOptimizer._parse_xpath and _shorten_absolute_xpath as calls, the   *)
(* second on the parts the first returned (optimize_xpath, lines 112 and   *)
(* 127).  The path is a separator followed by at most MaxSegments          *)
(* segments joined by the separator: a stable container, a tag with a      *)
(* zero-padded index, a segment the pattern rejects, or an empty segment.  *)
(***************************************************************************)
MaxSegments == 5

PathSegmentPool == { <<"f", "o", "r", "m">>, <<"t", "d", "[", "0", "3", "]">>, <<"a", "[", "@", "x", "]">>, <<>> }

PathInputs ==
    { <<"/">> \o Join(segments, <<"/">>) : segments \in SeqsUpTo(PathSegmentPool, MaxSegments) }

PathInit ==
    /\ path_input \in PathInputs
    /\ path_parts = <<>>
    /\ path_shortened = <<>>

CallParseXPath ==
    /\ path_parts = <<>>
    /\ path_parts' = <<ParseXPath(path_input)>>
    /\ UNCHANGED <<path_input, path_shortened>>
    /\ UNCHANGED <<locVars, optVars, genVars, fuzzyVars, escapeVars, scoreVars>>

CallShortenAbsoluteXPath ==
    /\ path_parts # <<>>
    /\ path_shortened = <<>>
    /\ path_shortened' = <<ShortenAbsoluteXPath(path_parts[1])>>
    /\ UNCHANGED <<path_input, path_parts>>
    /\ UNCHANGED <<locVars, optVars, genVars, fuzzyVars, escapeVars, scoreVars>>

\* no path parsed
PathIdle ==
    /\ path_input = <<>>
    /\ path_parts = <<>>
    /\ path_shortened = <<>>

(***************************************************************************)
(* SelectorGenerator._calculate_xpath_priority and                         *)
(* _determine_xpath_strategy as calls on one expression                    *)
(* (generate_strategies, lines 226 and 227).  The expression is a head (a  *)
(* bare tag, a tag under a table cell, a form or a nav, a parenthesised    *)
(* table descendant, a path from the document root) followed by at most    *)
(* MaxPredicates bracketed predicates.                                     *)
(***************************************************************************)
MaxPredicates == 2

ScoreHeads ==
    { <<"/", "/", "a">>, <<"/", "/", "t", "a", "b", "l", "e", "/", "/", "t", "r", "[", "2", "]", "/", "t", "d", "[", "3", "]", "/", "a">>, <<"/", "/", "f", "o", "r", "m", "/", "/", "i", "n", "p", "u", "t">>, <<"/", "/", "n", "a", "v", "/", "/", "a">>,
      <<"(", "/", "/", "t", "a", "b", "l", "e", "/", "/", "a", ")">>, <<"/", "h", "t", "m", "l", "/", "b", "o", "d", "y", "/", "d", "i", "v", "/", "a">> }

ScorePredicates ==
    { <<"@", "i", "d", "=", "'", "x", "'">>, <<"@", "r", "o", "l", "e", "=", "'", "r", "'">>, <<"@", "c", "l", "a", "s", "s", "=", "'", "c", "'">>, <<"t", "e", "x", "t", "(", ")", "=", "'", "t", "'">>,
      <<"c", "o", "n", "t", "a", "i", "n", "s", "(", "t", "e", "x", "t", "(", ")", ",", " ", "'", "t", "'", ")">>, <<"2">> }

RECURSIVE Bracketed(_)
Bracketed(predicates) ==
    IF predicates = <<>> THEN <<>>
    ELSE <<"[">> \o Head(predicates) \o <<"]">> \o Bracketed(Tail(predicates))

ScoreInputs ==
    { head \o Bracketed(predicates) :
          head \in ScoreHeads, predicates \in SeqsUpTo(ScorePredicates, MaxPredicates) }

ScoreInit ==
    /\ scored_xpath \in ScoreInputs
    /\ scored_absolute \in BOOLEAN
    /\ xpath_priority = <<>>
    /\ xpath_strategy = <<>>

CallCalculateXPathPriority ==
    /\ xpath_priority = <<>>
    /\ xpath_priority' = <<CalculateXPathPriority(scored_xpath, scored_absolute)>>
    /\ UNCHANGED <<scored_xpath, scored_absolute, xpath_strategy>>
    /\ UNCHANGED <<locVars, optVars, genVars, fuzzyVars, escapeVars, pathVars>>

CallDetermineXPathStrategy ==
    /\ xpath_strategy = <<>>
    /\ xpath_strategy' = <<DetermineXPathStrategy(scored_xpath)>>
    /\ UNCHANGED <<scored_xpath, scored_absolute, xpath_priority>>
    /\ UNCHANGED <<locVars, optVars, genVars, fuzzyVars, escapeVars, pathVars>>

\* no expression scored
ScoreIdle ==
    /\ scored_xpath = <<>>
    /\ scored_absolute = FALSE
    /\ xpath_priority = <<>>
    /\ xpath_strategy = <<>>

\* no helper function called
HelpersIdle == EscapeIdle /\ PathIdle /\ ScoreIdle

(***************************************************************************)
(* Specifications: Spec runs locate calls, SpecOpt optimizer calls,        *)
(* SpecGen generator calls and SpecFuzzy fuzzy-match calls; the others run *)
(* calls of single helper functions.                                       *)
(***************************************************************************)
vars == <<locVars, optVars, genVars, fuzzyVars, helperVars>>

Init == LocInit /\ OptIdle /\ GenIdle /\ FuzzyIdle /\ HelpersIdle

Spec == Init /\ [][Next]_vars

InitOpt == OptInit /\ LocIdle /\ GenIdle /\ FuzzyIdle /\ HelpersIdle

NextOpt == Optimize

SpecOpt == InitOpt /\ [][NextOpt]_vars

InitGen == GenInit /\ LocIdle /\ OptIdle /\ FuzzyIdle /\ HelpersIdle

NextGen == Generate

SpecGen == InitGen /\ [][NextGen]_vars

InitFuzzy == FuzzyInit /\ LocIdle /\ OptIdle /\ GenIdle /\ HelpersIdle

NextFuzzy == MatchFuzzy

SpecFuzzy == InitFuzzy /\ [][NextFuzzy]_vars

\* the locator, the optimizer, the generator and the fuzzy match are not called
CallsIdle == LocIdle /\ OptIdle /\ GenIdle /\ FuzzyIdle

InitEscape == EscapeInit /\ CallsIdle /\ PathIdle /\ ScoreIdle

NextEscape ==
    \/ CallEscapeXPathString
    \/ CallEscapeXPathValue

SpecEscape == InitEscape /\ [][NextEscape]_vars

InitPath == PathInit /\ CallsIdle /\ EscapeIdle /\ ScoreIdle

NextPath ==
    \/ CallParseXPath
    \/ CallShortenAbsoluteXPath

SpecPath == InitPath /\ [][NextPath]_vars

InitScore == ScoreInit /\ CallsIdle /\ EscapeIdle /\ PathIdle

NextScore ==
    \/ CallCalculateXPathPriority
    \/ CallDetermineXPathStrategy

SpecScore == InitScore /\ [][NextScore]_vars

(***************************************************************************)
(* Properties of the locator.                                              *)
(***************************************************************************)
\* the audit record a describes the strategy s
Describes(a, s) ==
    /\ a.strategy_type = s.type
    /\ a.strategy_value = s.value
    /\ a.priority = PriorityOf(s)
    /\ a.metadata = s.metadata

\* position of the j-th input strategy in ascending priority order, equal
\* priorities in input order
StableRank(j) ==
    Cardinality({k \in 1..Len(strategies) :
        \/ PriorityOf(strategies[k]) < PriorityOf(strategies[j])
        \/ PriorityOf(strategies[k]) = PriorityOf(strategies[j]) /\ k <= j})

NoDuplicates(seq) == \A a, b \in 1..Len(seq) : a # b => seq[a] # seq[b]

\* C1: strategies are attempted in ascending priority order whatever the
\* order of the input list, equal priorities in input order: the k-th attempt
\* is the input strategy of rank k, so its priority is never below that of an
\* earlier attempt; the match returned is that of the first strategy in this
\* order that succeeded.
C1_AscendingPriorityOrder ==
    /\ \A k \in 1..Len(strategy_attempts) :
          \E j \in 1..Len(strategies) :
              StableRank(j) = k /\ Describes(strategy_attempts[k], strategies[j])
    /\ \A k \in 2..Len(strategy_attempts) :
          strategy_attempts[k - 1].priority <= strategy_attempts[k].priority
    /\ result # <<>> =>
          /\ \E j \in 1..Len(strategies) :
                StableRank(j) = Len(strategy_attempts) /\ result[1].strategy = strategies[j]
          /\ \A k \in 1..(Len(strategy_attempts) - 1) : ~strategy_attempts[k].success

C1_Witness ==
    /\ pc = "done"
    /\ Len(strategies) >= 2
    /\ result # <<>>
    /\ result[1].strategy = strategies[2]
    /\ PriorityOf(strategies[1]) > PriorityOf(strategies[2])
    /\ strategies[1].type = "aria_label"
    /\ \E k \in 1..Len(mapEnv.map) :
          MatchesStrategy(mapEnv.map[k][2], "aria_label", strategies[1].value, NoMeta)
          /\ mapEnv.map[k][2].is_visible

\* C2: the element returned is visible: a snapshot node with is_visible false
\* is never returned, and a path result reporting visible=false is never
\* returned.
C2_OnlyVisibleReturned ==
    result # <<>> =>
        IF result[1].kind = "index"
        THEN /\ \E k \in 1..Len(mapEnv.map) : mapEnv.map[k][1] = result[1].index
             /\ \A k \in 1..Len(mapEnv.map) :
                   mapEnv.map[k][1] = result[1].index => mapEnv.map[k][2].is_visible
        ELSE evalEnv[result[1].xpath] = "visible"

C2_Witness ==
    /\ pc = "done"
    /\ result # <<>>
    /\ result[1].kind = "index"
    /\ \E k \in 1..Len(mapEnv.map) :
          /\ ~mapEnv.map[k][2].is_visible
          /\ mapEnv.map[k][1] # result[1].index
          /\ MatchesStrategy(mapEnv.map[k][2], result[1].strategy.type,
                             result[1].strategy.value, result[1].strategy.metadata)

\* C3: whenever the call returns NotFound, the audit list holds exactly
\* len(strategies) failed records, one per input strategy, whatever the page
\* handle and the snapshot provider do.
C3_NotFoundAfterAllTried ==
    (pc = "done" /\ result = <<>>) =>
        /\ Len(strategy_attempts) = Len(strategies)
        /\ \A k \in 1..Len(strategy_attempts) : ~strategy_attempts[k].success
        /\ \A j \in 1..Len(strategies) :
              Describes(strategy_attempts[StableRank(j)], strategies[j])

\* C4: at every return the audit list holds one record per strategy
\* attempted, in the order attempted, no strategy is attempted twice, every
\* record but the last is a failure, and the last is a success exactly when a
\* match is returned, which it then describes; an empty list gives NotFound
\* and an empty audit list.
C4_AuditMirrorsAttempts ==
    pc = "done" =>
        /\ Len(strategy_attempts) = Len(tried)
        /\ NoDuplicates(tried)
        /\ \A k \in 1..Len(tried) :
              Describes(strategy_attempts[k], sorted_strategies[tried[k]])
        /\ \A k \in 1..(Len(strategy_attempts) - 1) : ~strategy_attempts[k].success
        /\ (result # <<>>) <=>
              (strategy_attempts # <<>>
               /\ strategy_attempts[Len(strategy_attempts)].success)
        /\ result # <<>> =>
              Describes(strategy_attempts[Len(strategy_attempts)], result[1].strategy)
        /\ strategies = <<>> => (result = <<>> /\ strategy_attempts = <<>>)

C4_Witness ==
    /\ pc = "done"
    /\ result # <<>>
    /\ Len(strategy_attempts) = 3
    /\ strategy_attempts[3].success

\* C5: a path-expression strategy whose live evaluation returns null, returns
\* an error object, raises or finds an invisible element is recorded as a
\* failed attempt and the call goes on with the next strategy in priority
\* order (returning NotFound only after the last one).
SoftFailures == {"null", "error", "raise", "invisible"}

C5_PathFailureIsSoft ==
    [][ ( /\ pc = "loop"
          /\ sorted_strategies[i].type = "xpath"
          /\ evalEnv'[NormalizeXPath(sorted_strategies[i].value)] \in SoftFailures )
        => ( /\ strategy_attempts' =
                   Append(strategy_attempts,
                          StrategyAttempt(sorted_strategies[i], FALSE,
                                          "XPath query returned no results"))
             /\ i' = i + 1
             /\ result' = <<>>
             /\ pc' = IF i < Len(sorted_strategies) THEN "loop" ELSE "done" ) ]_vars

C5_Witness ==
    /\ pc = "done"
    /\ result # <<>>
    /\ \E k \in 1..(Len(strategy_attempts) - 1) :
          /\ strategy_attempts[k].strategy_type = "xpath"
          /\ evalEnv[NormalizeXPath(strategy_attempts[k].strategy_value)] = "invisible"

\* C6: the outcome does not depend on target_text: on the same page and with
\* the same strategies, a call returns the same match (or NotFound) and the
\* same audit success flags as the previous call, whatever the two calls'
\* target_text; the first call is made without one.
C6_TargetTextIsAdvisory ==
    (pc = "done" /\ prev # <<>>) =>
        /\ result = prev[1].result
        /\ Outcome.flags = prev[1].flags

C6_Witness ==
    /\ pc = "done"
    /\ prev # <<>>
    /\ prev[1].target_text = NoneStr
    /\ target_text = No
    /\ result # <<>>
    /\ result[1].kind = "index"
    /\ \E k \in 1..Len(mapEnv.map) :
          /\ mapEnv.map[k][1] = result[1].index
          /\ ~TargetTextFound(mapEnv.map[k][2], target_text)

\* C7 as stated: every call awaits between 1 and len(strategies) + 1
\* collaborator calls, with at most one live evaluation per path strategy.
C7_AwaitsAtMostLenPlusOne ==
    pc = "done" =>
        /\ awaits >= 1
        /\ awaits <= Len(strategies) + 1
        /\ NoDuplicates(evals)

\* C7 amended: a call with an empty list awaits nothing; any other call
\* awaits the page-handle fetch, then (if a page was obtained) the snapshot
\* fetch and one live evaluation per path-expression strategy attempted: at
\* least 1 and at most len(strategies) + 2 awaits.
C7_AwaitsAtMostLenPlusTwo ==
    pc = "done" =>
        /\ strategies = <<>> => awaits = 0
        /\ strategies # <<>> => (awaits >= 1 /\ awaits <= Len(strategies) + 2)
        /\ NoDuplicates(evals)
        /\ \A k \in 1..Len(evals) : sorted_strategies[evals[k]].type = "xpath"
        /\ awaits <= 2 + Len(evals)

C7_Witness ==
    /\ pc = "done"
    /\ strategies # <<>>
    /\ awaits = Len(strategies) + 2
    /\ Len(evals) = Len(strategies)

(***************************************************************************)
(* Properties of the path optimizer.                                       *)
(***************************************************************************)
\* C8: for max_alternatives = N >= 2 the list returned has exactly N entries,
\* whatever the absolute path and the descriptor.
C8_ExactlyMaxAlternatives ==
    (optPc = "returned" /\ max_alternatives >= 2) =>
        Len(unique_alternatives) = max_alternatives

\* C9: for max_alternatives >= 2 the last entry is the absolute path, the
\* absolute path occurs nowhere else, and the entries are pairwise distinct.
C9_AbsoluteLastAndDistinct ==
    (optPc = "returned" /\ max_alternatives >= 2) =>
        /\ unique_alternatives # <<>>
        /\ unique_alternatives[Len(unique_alternatives)] = absolute_xpath
        /\ \A k \in 1..(Len(unique_alternatives) - 1) :
              unique_alternatives[k] # absolute_xpath
        /\ NoDuplicates(unique_alternatives)

C9_Witness ==
    /\ optPc = "returned"
    /\ max_alternatives >= 2
    /\ Len(unique_alternatives) >= 2
    /\ LET cands == Alternatives(absolute_xpath, element_info)
       IN  \E k \in 1..Len(cands) : cands[k] = absolute_xpath

\* C10: for max_alternatives <= 1, zero and negative values included, the
\* list returned is the absolute path alone.
C10_OnlyAbsoluteBelowTwo ==
    (optPc = "returned" /\ max_alternatives <= 1) =>
        unique_alternatives = <<absolute_xpath>>

C10_Witness ==
    /\ optPc = "returned"
    /\ max_alternatives < 0
    /\ UniqueAlternatives(Alternatives(absolute_xpath, element_info), {},
                          absolute_xpath) # <<>>

(***************************************************************************)
(* Properties of the strategy generator.                                   *)
(***************************************************************************)
\* the trimmed text of the descriptor
TrimmedText == Strip(GetOr(element_data.text, <<>>))

\* positions of the strategies of one type in the list returned
OfType(type) == {k \in 1..Len(gen_strategies) : gen_strategies[k].type = type}

\* C11: every list returned by generate_strategies, whatever the descriptor
\* and the configuration, is in non-decreasing order of priority and holds no
\* two strategies with the same (type, value) pair.
C11_SortedWithoutDuplicatePairs ==
    genPc = "returned" =>
        /\ \A k \in 2..Len(gen_strategies) :
              gen_strategies[k - 1].priority <= gen_strategies[k].priority
        /\ \A a, b \in 1..Len(gen_strategies) :
              a # b => <<gen_strategies[a].type, gen_strategies[a].value>>
                       # <<gen_strategies[b].type, gen_strategies[b].value>>

C11_Witness ==
    /\ genPc = "returned"
    /\ \E a \in OfType("xpath"), b \in OfType("text_fuzzy") : a < b
    /\ \E a \in OfType("text_exact"), b \in OfType("text_fuzzy") :
          gen_strategies[a].value = gen_strategies[b].value
    /\ Cardinality(OfType("xpath")) >= 2

\* C12: for a descriptor whose trimmed text is not empty and a total cap that
\* is unset or positive, the first strategy returned is text_exact with the
\* trimmed text as value and priority 1, whatever path-expression strategies
\* are generated with it.
C12_TextExactFirst ==
    ( /\ genPc = "returned"
      /\ TrimmedText # <<>>
      /\ (max_total_strategies = <<>> \/ max_total_strategies[1] > 0) ) =>
        /\ gen_strategies # <<>>
        /\ gen_strategies[1].type = "text_exact"
        /\ gen_strategies[1].value = TrimmedText
        /\ gen_strategies[1].priority = 1

C12_Witness ==
    /\ genPc = "returned"
    /\ max_total_strategies = <<1>>
    /\ gen_strategies # <<>>
    /\ gen_strategies[1].type = "text_exact"
    /\ LET all == CollectStrategies(element_data, include_xpath_fallback,
                                    enable_xpath_optimization, max_xpath_alternatives)
       IN  \E k \in 1..Len(all) : all[k].type = "xpath" /\ all[k].priority = 2

\* the descriptor's attribute map
Attributes == GetOr(element_data.attributes, <<>>)

\* a generator built with the constructor's defaults
DefaultConfigured ==
    /\ enable_xpath_optimization
    /\ max_xpath_alternatives = <<2>>
    /\ max_total_strategies = <<2>>

\* C13: the list returned by a default-configured generator holds a
\* text_fuzzy strategy exactly when the trimmed text has more than 3
\* characters; when present it has the text as value, priority 7 and
\* threshold 0.8.
C13_TextFuzzyIffLongText ==
    (genPc = "returned" /\ DefaultConfigured) =>
        /\ (OfType("text_fuzzy") # {}) <=> (Len(TrimmedText) > 3)
        /\ \A k \in OfType("text_fuzzy") :
              /\ gen_strategies[k].value = TrimmedText
              /\ gen_strategies[k].priority = 7
              /\ gen_strategies[k].metadata.threshold = <<80>>

\* the list returned holds a strategy of this type for the attribute, with the
\* attribute's value and this priority
AttributeStrategyPresent(name, type, priority) ==
    AttrGet(Attributes, name) # <<>> =>
        \E k \in OfType(type) :
            /\ gen_strategies[k].value = AttrGet(Attributes, name)
            /\ gen_strategies[k].priority = priority

\* C14: with a default-configured generator, each of the attributes
\* aria-label, placeholder, title and alt that has a non-empty value gives a
\* strategy of type aria_label, placeholder, title, alt_text with that value
\* and priority 3, 4, 5, 6 in the list returned, also when the element has
\* visible text and an inferable role.
C14_AttributeStrategiesByDefault ==
    (genPc = "returned" /\ DefaultConfigured) =>
        /\ AttributeStrategyPresent(<<"a", "r", "i", "a", "-", "l", "a", "b", "e", "l">>, "aria_label", 3)
        /\ AttributeStrategyPresent(<<"p", "l", "a", "c", "e", "h", "o", "l", "d", "e", "r">>, "placeholder", 4)
        /\ AttributeStrategyPresent(<<"t", "i", "t", "l", "e">>, "title", 5)
        /\ AttributeStrategyPresent(<<"a", "l", "t">>, "alt_text", 6)

\* positions of the semantic strategies in the list returned
Semantic == {k \in 1..Len(gen_strategies) : gen_strategies[k].type \in SemanticTypes}

Uncapped ==
    SortStrategies(CollectStrategies(element_data, include_xpath_fallback,
                                     enable_xpath_optimization, max_xpath_alternatives))

\* C16: with a total cap C >= 1 the list returned has at most C strategies and
\* is the first C entries of the uncapped priority-sorted list: no dropped
\* strategy has a smaller priority number than a retained one.
C16_CapKeepsSortedPrefix ==
    (genPc = "returned" /\ max_total_strategies # <<>> /\ max_total_strategies[1] >= 1) =>
        /\ Len(gen_strategies) <= max_total_strategies[1]
        /\ Len(gen_strategies) = Min(max_total_strategies[1], Len(Uncapped))
        /\ \A k \in 1..Len(gen_strategies) : gen_strategies[k] = Uncapped[k]
        /\ \A k \in 2..Len(Uncapped) : Uncapped[k - 1].priority <= Uncapped[k].priority
        /\ \A d \in (Len(gen_strategies) + 1)..Len(Uncapped), k \in 1..Len(gen_strategies) :
              gen_strategies[k].priority <= Uncapped[d].priority

C16_Witness ==
    /\ genPc = "returned"
    /\ max_total_strategies = <<3>>
    /\ Len(Uncapped) > 3
    /\ gen_strategies[3].type = "xpath"
    /\ LET all == CollectStrategies(element_data, include_xpath_fallback,
                                    enable_xpath_optimization, max_xpath_alternatives)
       IN  all[3].type # "xpath"

\* the captured absolute path, <<>> when there is none
CapturedPath == GetOr(element_data.xpath, <<>>)

\* the last position of an xpath strategy in the list returned
LastXPath == CHOOSE x \in OfType("xpath") : \A y \in OfType("xpath") : y <= x

\* the optimizer was asked for alternatives of a captured absolute path and
\* the list is returned without a total cap
OptimizedUncapped ==
    /\ genPc = "returned"
    /\ include_xpath_fallback
    /\ enable_xpath_optimization
    /\ CapturedPath # <<>>
    /\ max_xpath_alternatives # <<>>
    /\ max_total_strategies = <<>>

\* C17 as stated: with path optimization enabled, a captured absolute path
\* and no total cap, there are at most max_xpath_alternatives xpath
\* strategies, the last of them has the absolute path as value, and no other
\* xpath strategy has a greater priority number.
C17_AtMostMaxXPathAlternatives ==
    OptimizedUncapped =>
        /\ Cardinality(OfType("xpath")) <= max_xpath_alternatives[1]
        /\ OfType("xpath") # {}
        /\ gen_strategies[LastXPath].value = CapturedPath
        /\ \A x \in OfType("xpath") :
              gen_strategies[x].priority <= gen_strategies[LastXPath].priority

\* C17 amended: there is at least one xpath strategy and at most
\* max_xpath_alternatives of them, one when max_xpath_alternatives is below 1,
\* the last of them has the absolute path as value, and no other xpath
\* strategy has a greater priority number.
C17_AtMostMaxXPathAlternativesOrOne ==
    OptimizedUncapped =>
        /\ Cardinality(OfType("xpath")) <= Max(max_xpath_alternatives[1], 1)
        /\ OfType("xpath") # {}
        /\ gen_strategies[LastXPath].value = CapturedPath
        /\ \A x \in OfType("xpath") :
              gen_strategies[x].priority <= gen_strategies[LastXPath].priority

C17_Witness ==
    /\ OptimizedUncapped
    /\ max_xpath_alternatives[1] >= 3
    /\ Cardinality(OfType("xpath")) = max_xpath_alternatives[1]
    /\ ~StartsWith(CapturedPath, <<"/", "h", "t", "m", "l", "/", "b", "o", "d", "y">>)

(***************************************************************************)
(* Properties of the locator on an empty snapshot, and of the fuzzy match. *)
(***************************************************************************)
\* C18: when the snapshot provider returns an empty mapping, or no mapping,
\* a locate call whose strategies are all semantic returns NotFound (it does
\* not raise) and records every strategy as a failed attempt.
C18_EmptySnapshotGivesNotFound ==
    ( /\ pc = "done"
      /\ mapEnv.outcome \in {"map", "none"}
      /\ mapEnv.map = <<>>
      /\ \A k \in 1..Len(strategies) : strategies[k].type \in SemanticTypes ) =>
        /\ result = <<>>
        /\ Len(strategy_attempts) = Len(strategies)
        /\ \A k \in 1..Len(strategy_attempts) : ~strategy_attempts[k].success
        /\ \A j \in 1..Len(strategies) :
              Describes(strategy_attempts[StableRank(j)], strategies[j])

C18_Witness ==
    /\ pc = "done"
    /\ mapEnv = [outcome |-> "map", map |-> <<>>]
    /\ Len(strategies) >= 2
    /\ \A k \in 1..Len(strategies) : strategies[k].type \in SemanticTypes
    /\ Len(strategy_attempts) = Len(strategies)
    /\ result = <<>>

(***************************************************************************)
(* Properties of the generator when the path optimizer raises.             *)
(***************************************************************************)
\* the optimizer is called for a captured absolute path and raises
OptimizerRaised ==
    /\ genPc = "returned"
    /\ include_xpath_fallback
    /\ enable_xpath_optimization
    /\ CapturedPath # <<>>
    /\ OptimizeXPathRaises(max_xpath_alternatives)

\* the semantic strategies of the descriptor, in priority order
ExpectedSemantic ==
    SemanticStrategies(Lower(GetOr(element_data.tag_name, <<>>)), TrimmedText, Attributes)

\* the number of entries a list of n strategies keeps under the total cap
KeptUnderCap(n) ==
    IF max_total_strategies = <<>> \/ max_total_strategies[1] = 0 THEN n
    ELSE IF max_total_strategies[1] > 0 THEN Min(n, max_total_strategies[1])
    ELSE Max(Min(n, n + max_total_strategies[1]), 0)

\* C19: if the path optimizer raises, generate_strategies still returns a
\* list: it holds the semantic strategies that are generated otherwise, up to
\* the total cap, and after them at most one path expression, the synthesized
\* fallback with priority 8.
C19_OptimizerFailureIsSoft ==
    OptimizerRaised =>
        /\ Cardinality(OfType("xpath")) <= 1
        /\ \A x \in OfType("xpath") :
              /\ gen_strategies[x].priority = 8
              /\ gen_strategies[x].metadata.fallback
              /\ ~gen_strategies[x].metadata.optimized
              /\ x = Len(gen_strategies)
        /\ Cardinality(Semantic) >= KeptUnderCap(Len(ExpectedSemantic))
        /\ \A s \in Semantic : s <= Len(ExpectedSemantic)
                               /\ gen_strategies[s] = ExpectedSemantic[s]

C19_Witness ==
    /\ OptimizerRaised
    /\ Cardinality(OfType("xpath")) = 1
    /\ Cardinality(Semantic) >= 3
    /\ max_total_strategies # <<>>

(***************************************************************************)
(* Properties of the fuzzy text match.                                     *)
(***************************************************************************)
\* the threshold in force, in hundredths
ThresholdInForce == IF fuzzy_threshold = <<>> THEN 80 ELSE fuzzy_threshold[1]

\* equal up to letter case
SameLetters(a, b) == Lower(a) = Lower(b)

\* the call compares strings that read as a and b up to letter case
Compares(a, b) == SameLetters(fuzzy_value, a) /\ SameLetters(Strip(fuzzy_text), b)

\* C20: a text_fuzzy strategy matches a node exactly when the ratio
\* 2*M/(len(value) + len(text)) of the lower-cased value and the lower-cased
\* trimmed node text is at least the metadata threshold, 0.8 when there is
\* none: 'Submit' against 'Submitt' matches at 0.8, 'Submit' against
\* 'Submit Form' matches at 0.7 and not at 0.8, and the result is the same
\* for every letter case of the two strings.
C20_FuzzyRatioAgainstThreshold ==
    fuzzyPc = "returned" =>
        LET a == Lower(fuzzy_value)
            b == Lower(Strip(fuzzy_text))
            M == MatchingChars(a, b, 0, Len(a), 0, Len(b))
            T == Len(a) + Len(b)
        IN  /\ T > 0 => (fuzzy_matched <=> (200 * M >= ThresholdInForce * T))
            /\ (Compares(<<"S", "u", "b", "m", "i", "t">>, <<"S", "u", "b", "m", "i", "t", "t">>) /\ ThresholdInForce = 80) =>
                  (M = 6 /\ T = 13 /\ fuzzy_matched)
            /\ (Compares(<<"S", "u", "b", "m", "i", "t">>, <<"S", "u", "b", "m", "i", "t", " ", "F", "o", "r", "m">>) /\ ThresholdInForce = 70) =>
                  (M = 6 /\ T = 17 /\ fuzzy_matched)
            /\ (Compares(<<"S", "u", "b", "m", "i", "t">>, <<"S", "u", "b", "m", "i", "t", " ", "F", "o", "r", "m">>) /\ ThresholdInForce = 80) =>
                  ~fuzzy_matched
            /\ \A v \in FuzzyValues, t \in FuzzyTexts :
                  (SameLetters(v, fuzzy_value) /\ SameLetters(Strip(t), Strip(fuzzy_text))) =>
                      (MatchesStrategy(TextNode(t), "text_fuzzy", v,
                                       [role |-> NoneStr, threshold |-> fuzzy_threshold])
                       <=> fuzzy_matched)

C20_Witness ==
    /\ fuzzyPc = "returned"
    /\ fuzzy_value = <<"S", "U", "B", "M", "I", "T">>
    /\ fuzzy_text = <<"s", "u", "b", "m", "i", "t", " ", "f", "o", "r", "m">>
    /\ fuzzy_threshold = <<70>>
    /\ fuzzy_matched

(***************************************************************************)
(* Capture and replay: the strategies generated for a descriptor, matched  *)
(* against a snapshot node of the element they were generated for.         *)
(***************************************************************************)
\* a visible snapshot node with the tag, the trimmed text and the attribute
\* values of the captured element; its role is the explicit role attribute,
\* empty when there is none
CapturedNode ==
    [text |-> TrimmedText,
     role |-> AttrGet(Attributes, <<"r", "o", "l", "e">>),
     tag_name |-> GetOr(element_data.tag_name, <<>>),
     aria_label |-> AttrGet(Attributes, <<"a", "r", "i", "a", "-", "l", "a", "b", "e", "l">>),
     placeholder |-> AttrGet(Attributes, <<"p", "l", "a", "c", "e", "h", "o", "l", "d", "e", "r">>),
     title |-> AttrGet(Attributes, <<"t", "i", "t", "l", "e">>),
     alt |-> AttrGet(Attributes, <<"a", "l", "t">>),
     attributes |-> [name |-> IF AttrHas(Attributes, <<"n", "a", "m", "e">>)
                              THEN <<AttrGet(Attributes, <<"n", "a", "m", "e">>)>> ELSE <<>>],
     is_visible |-> TRUE]

\* C21: each semantic strategy returned by generate_strategies matches the
\* snapshot node of the captured element, and is found in a snapshot holding
\* that node alone; a role_text strategy whose role was inferred from the tag
\* included.
C21_GeneratedStrategyMatchesCapturedNode ==
    genPc = "returned" =>
        \A s \in Semantic :
            /\ MatchesStrategy(CapturedNode, gen_strategies[s].type,
                               gen_strategies[s].value, gen_strategies[s].metadata)
            /\ FindWithSemanticStrategy(gen_strategies[s].type, gen_strategies[s].value,
                                        gen_strategies[s].metadata,
                                        << <<1, CapturedNode>> >>, NoneStr) # <<>>

(***************************************************************************)
(* Properties of the two quote-escaping functions.  A path-expression      *)
(* string literal is a run of characters between two double quotes, or     *)
(* between two single quotes, that holds no copy of its delimiter; concat  *)
(* takes two or more arguments separated by commas.                        *)
(***************************************************************************)
IsQuote(c) == c \in {"'", "\""}

\* the literal at the head of e: <<>> when e does not start with a literal,
\* else <<[text, rest]>> with the characters up to the next copy of the
\* opening quote and what follows the closing quote
ReadLiteral(e) ==
    IF e = <<>> \/ ~IsQuote(Head(e)) THEN <<>>
    ELSE LET Closing == {k \in 2..Len(e) : e[k] = e[1]}
         IN  IF Closing = {} THEN <<>>
             ELSE LET k == CHOOSE c \in Closing : \A d \in Closing : c <= d
                  IN  <<[text |-> SubSeq(e, 2, k - 1), rest |-> SubSeq(e, k + 1, Len(e))]>>

\* the arguments of a concat call, e being what follows 'concat(': <<>> when
\* e is not a comma-separated list of literals closed by ')', else <<texts>>
RECURSIVE ReadArguments(_)
ReadArguments(e) ==
    LET lit == ReadLiteral(LStrip(e))
    IN  IF lit = <<>> THEN <<>>
        ELSE LET after == LStrip(lit[1].rest)
             IN  IF after = <<")">> THEN << <<lit[1].text>> >>
                 ELSE IF after # <<>> /\ Head(after) = ","
                      THEN LET more == ReadArguments(Tail(after))
                           IN  IF more = <<>> THEN <<>>
                               ELSE << <<lit[1].text>> \o more[1] >>
                 ELSE <<>>

\* the string denoted by e: <<>> when e is neither a string literal nor a
\* concat of two or more string literals, else <<string>>
Denoted(e) ==
    IF StartsWith(e, <<"c", "o", "n", "c", "a", "t", "(">>)
    THEN LET args == ReadArguments(SubSeq(e, 8, Len(e)))
         IN  IF args = <<>> \/ Len(args[1]) < 2 THEN <<>>
             ELSE << Join(args[1], <<>>) >>
    ELSE LET lit == ReadLiteral(e)
         IN  IF lit = <<>> \/ lit[1].rest # <<>> THEN <<>>
             ELSE << lit[1].text >>

\* C22: for every text value, values holding both kinds of quote included,
\* what escape_xpath_string returns and what _escape_xpath_value returns is a
\* string literal, or a concat of string literals, none of which holds its
\* own delimiter, and the string it denotes is the value.
C22_EscapedDenotesValue ==
    /\ escaped_string # <<>> => Denoted(escaped_string[1]) = <<escape_input>>
    /\ escaped_value # <<>> => Denoted(escaped_value[1]) = <<escape_input>>

\* the strategy generator's escaping taken alone
GeneratorEscapeDenotesValue ==
    escaped_value # <<>> => Denoted(escaped_value[1]) = <<escape_input>>

(***************************************************************************)
(* Properties of the path parser and of the shortened absolute path.       *)
(***************************************************************************)
\* the parts returned by _parse_xpath
Parsed == path_parts[1]

\* positions, from 1, of the parts whose tag is a stable container
StablePositions == {k \in 1..Len(Parsed) : Parsed[k].tag \in StableTags}

DeepestStable == CHOOSE k \in StablePositions : \A m \in StablePositions : m <= k

\* the parts from position k on, each with its original text, after a
\* leading separator
SuffixFrom(k) ==
    <<"/">> \o Join([m \in 1..(Len(Parsed) - k + 1) |-> Parsed[k + m - 1].original], <<"/">>)

\* C23: for more than 4 parts _shorten_absolute_xpath returns the suffix that
\* starts at the deepest stable container, or the last 3 parts when no stable
\* container lies closer to the target than that, each part with its
\* original text; for 4 parts or fewer it returns nothing.
C23_ShortenedStartsAtDeepestStable ==
    path_shortened # <<>> =>
        IF Len(Parsed) <= 4 THEN path_shortened[1] = <<>>
        ELSE IF StablePositions # {} /\ DeepestStable > Len(Parsed) - 2
             THEN path_shortened[1] = <<SuffixFrom(DeepestStable)>>
             ELSE path_shortened[1] = <<SuffixFrom(Len(Parsed) - 2)>>

(***************************************************************************)
(* Properties of the expression synthesized when no absolute path was      *)
(* captured.                                                               *)
(***************************************************************************)
\* generate_strategies was asked for a path fallback and the descriptor has
\* no absolute path
SynthesisCase ==
    /\ genPc = "returned"
    /\ include_xpath_fallback
    /\ CapturedPath = <<>>

FilledAttribute(name) == AttrGet(Attributes, name) # <<>>

\* positions of the data-* attributes, and of those with a non-empty value
DataPositions ==
    {k \in 1..Len(Attributes) : StartsWith(Attributes[k][1], <<"d", "a", "t", "a", "-">>)}

FilledData == {k \in DataPositions : Attributes[k][2] # <<>>}

FirstFilledData == CHOOSE k \in FilledData : \A m \in FilledData : k <= m

AttributePredicate(name) ==
    <<"@">> \o name \o <<"=">> \o EscapeXPathValue(AttrGet(Attributes, name))

DataPredicate ==
    <<"@">> \o Attributes[FirstFilledData][1] \o <<"=">>
        \o EscapeXPathValue(Attributes[FirstFilledData][2])

TextPredicate == <<"c", "o", "n", "t", "a", "i", "n", "s", "(", "t", "e", "x", "t", "(", ")", ",", " ">> \o EscapeXPathValue(TrimmedText) \o <<")">>

\* the predicate of the highest-precedence source with a non-empty value,
\* <<>> when no source has one
PredicateByPrecedence ==
    IF FilledAttribute(<<"i", "d">>) THEN <<AttributePredicate(<<"i", "d">>)>>
    ELSE IF FilledAttribute(<<"n", "a", "m", "e">>) THEN <<AttributePredicate(<<"n", "a", "m", "e">>)>>
    ELSE IF FilledData # {} THEN <<DataPredicate>>
    ELSE IF FilledAttribute(<<"a", "r", "i", "a", "-", "l", "a", "b", "e", "l">>) THEN <<AttributePredicate(<<"a", "r", "i", "a", "-", "l", "a", "b", "e", "l">>)>>
    ELSE IF FilledAttribute(<<"p", "l", "a", "c", "e", "h", "o", "l", "d", "e", "r">>) THEN <<AttributePredicate(<<"p", "l", "a", "c", "e", "h", "o", "l", "d", "e", "r">>)>>
    ELSE IF TrimmedText # <<>> THEN <<TextPredicate>>
    ELSE <<>>

\* the same, the data-* attributes closing the list of sources as soon as the
\* descriptor has one
PredicateDataClosing ==
    IF FilledAttribute(<<"i", "d">>) THEN <<AttributePredicate(<<"i", "d">>)>>
    ELSE IF FilledAttribute(<<"n", "a", "m", "e">>) THEN <<AttributePredicate(<<"n", "a", "m", "e">>)>>
    ELSE IF DataPositions # {} THEN (IF FilledData # {} THEN <<DataPredicate>> ELSE <<>>)
    ELSE IF FilledAttribute(<<"a", "r", "i", "a", "-", "l", "a", "b", "e", "l">>) THEN <<AttributePredicate(<<"a", "r", "i", "a", "-", "l", "a", "b", "e", "l">>)>>
    ELSE IF FilledAttribute(<<"p", "l", "a", "c", "e", "h", "o", "l", "d", "e", "r">>) THEN <<AttributePredicate(<<"p", "l", "a", "c", "e", "h", "o", "l", "d", "e", "r">>)>>
    ELSE IF TrimmedText # <<>> THEN <<TextPredicate>>
    ELSE <<>>

\* the lower-cased tag followed by the predicate in brackets, '*' standing
\* for an empty tag
SynthesizedFrom(predicate) ==
    LET tag == Lower(GetOr(element_data.tag_name, <<>>))
    IN  (IF tag # <<>> THEN <<"/", "/">> \o tag ELSE <<"/", "/", "*">>)
        \o <<"[">> \o predicate \o <<"]">>

\* the list returned holds the expression of this predicate as its one xpath
\* strategy, with priority 8, whenever there is a predicate and no total cap,
\* and holds no other xpath strategy
SynthesizedStrategyIs(predicate) ==
    /\ Cardinality(OfType("xpath")) <= 1
    /\ \A x \in OfType("xpath") :
          /\ predicate # <<>>
          /\ gen_strategies[x].value = SynthesizedFrom(predicate[1])
          /\ gen_strategies[x].priority = 8
          /\ gen_strategies[x].metadata.fallback
    /\ (predicate # <<>> /\ max_total_strategies = <<>>) => OfType("xpath") # {}

\* C24 as stated: without a captured absolute path the expression added is
\* the one whose predicate uses the highest-precedence source with a
\* non-empty value, in the order id, name, first data-* attribute,
\* aria-label, placeholder, text-contains, and there is one whenever a source
\* has a non-empty value.
C24_SynthesizedByPrecedence ==
    SynthesisCase => SynthesizedStrategyIs(PredicateByPrecedence)

\* C24 amended: as stated, except that a descriptor with an empty id and
\* name and any data-* attribute gets its predicate from the data-*
\* attributes alone: the first with a non-empty value, and no expression at
\* all when every data-* value is empty.
C24_SynthesizedDataClosing ==
    SynthesisCase => SynthesizedStrategyIs(PredicateDataClosing)

C24_Witness ==
    /\ SynthesisCase
    /\ OfType("xpath") # {}
    /\ FilledAttribute(<<"i", "d">>)
    /\ FilledAttribute(<<"n", "a", "m", "e">>)
    /\ \E k \in OfType("xpath") :
          gen_strategies[k].value = SynthesizedFrom(AttributePredicate(<<"i", "d">>))

(***************************************************************************)
(* Properties of the priority and the label given to one path expression.  *)
(***************************************************************************)
\* both functions returned for the expression
BothScored == xpath_priority # <<>> /\ xpath_strategy # <<>>

\* the branches the two functions share up to the form anchor: the labels
\* of a branch and the priority of the same branch
LeadingBranches ==
    { [labels |-> { <<"a", "b", "s", "o", "l", "u", "t", "e", "-", "f", "a", "l", "l", "b", "a", "c", "k">> }, priorities |-> {10}],
      [labels |-> { <<"i", "d", "-", "b", "a", "s", "e", "d">>, <<"n", "a", "m", "e", "-", "b", "a", "s", "e", "d">>, <<"d", "a", "t", "a", "-", "a", "t", "t", "r", "i", "b", "u", "t", "e">> }, priorities |-> {2}],
      [labels |-> { <<"a", "r", "i", "a", "-", "b", "a", "s", "e", "d">>, <<"r", "o", "l", "e", "-", "b", "a", "s", "e", "d">> }, priorities |-> {3}],
      [labels |-> { <<"t", "a", "b", "l", "e", "-", "a", "n", "c", "h", "o", "r", "e", "d">>, <<"f", "o", "r", "m", "-", "a", "n", "c", "h", "o", "r", "e", "d">> }, priorities |-> {4}] }

\* the remaining pairs of labels and priorities
TrailingBranches ==
    { [labels |-> { <<"c", "l", "a", "s", "s", "-", "b", "a", "s", "e", "d">> }, priorities |-> {6}],
      [labels |-> { <<"t", "e", "x", "t", "-", "e", "x", "a", "c", "t">>, <<"t", "e", "x", "t", "-", "c", "o", "n", "t", "a", "i", "n", "s">> }, priorities |-> {5, 7}],
      [labels |-> { <<"p", "o", "s", "i", "t", "i", "o", "n", "a", "l">> }, priorities |-> {8}] }

\* the label is one of the branch's labels exactly when the priority is one
\* of the branch's priorities
AgreeOn(branch) ==
    (xpath_strategy[1] \in branch.labels) <=> (xpath_priority[1] \in branch.priorities)

\* C25: for every path expression scored without the is_absolute flag, the
\* label is 'absolute-fallback' iff the priority is 10, 'id-based',
\* 'name-based' or 'data-attribute' iff 2, 'aria-based' or 'role-based' iff
\* 3, 'table-anchored' or 'form-anchored' iff 4, 'class-based' iff 6,
\* 'text-exact' or 'text-contains' iff 5 or 7, and 'positional' iff 8.
C25_LabelAndPriorityShareBranch ==
    (BothScored /\ ~scored_absolute) =>
        \A branch \in LeadingBranches \cup TrailingBranches : AgreeOn(branch)

\* the part of it that holds: the two functions agree on the branches up to
\* the form anchor
LabelAndPriorityShareLeadingBranch ==
    (BothScored /\ ~scored_absolute) => \A branch \in LeadingBranches : AgreeOn(branch)

(***************************************************************************)
(* Properties of the order of the optimizer's list under the generator's   *)
(* priority.                                                               *)
(***************************************************************************)
\* positions of the optimized entries of the list returned: all but the last,
\* which is the absolute path
OptimizedPositions == 1..(Len(unique_alternatives) - 1)

\* _calculate_xpath_priority of the entry at position k, as the generator
\* calls it for an optimized entry
PriorityAt(k) == CalculateXPathPriority(unique_alternatives[k], FALSE)

\* C26: the optimized entries returned by optimize_xpath are ordered from
\* most to least robust under the generator's priority function: of two
\* optimized entries the earlier has a priority value <= that of the later.
C26_OptimizedOrderedByPriority ==
    optPc = "returned" =>
        \A j, k \in OptimizedPositions : j < k => PriorityAt(j) <= PriorityAt(k)

(***************************************************************************)
(* Properties of the parts _parse_xpath returns against the text of the    *)
(* path.                                                                   *)
(***************************************************************************)
\* the original texts of the parts joined by the separator, after a leading
\* separator
Rejoined ==
    <<"/">> \o Join([k \in 1..Len(Parsed) |-> Parsed[k].original], <<"/">>)

\* the segments of the path: the texts between the separators that follow
\* the leading one
InputSegments == SplitOn(Tail(path_input), "/")

\* a tag of letters, digits, '_' and '-', alone or followed by digits in
\* brackets
IsWellFormedSegment(segment) ==
    \E n \in 1..Len(segment) :
        /\ \A k \in 1..n : IsTagChar(segment[k])
        /\ \/ n = Len(segment)
           \/ /\ Len(segment) >= n + 3
              /\ segment[n + 1] = "["
              /\ segment[Len(segment)] = "]"
              /\ \A k \in (n + 2)..(Len(segment) - 1) : IsDigit(segment[k])

\* C27 as stated: joining the original texts of the parts _parse_xpath
\* returns, the leading separator restored, reproduces the input path
\* exactly.
C27_RejoinedIsInput == path_parts # <<>> => Rejoined = path_input

\* C27 amended: joining the original texts of the parts reproduces the input
\* path without its malformed segments (empty ones included), hence the
\* input path itself when every segment is well formed.
C27_RejoinedIsInputWithoutMalformed ==
    path_parts # <<>> =>
        /\ Rejoined = <<"/">> \o Join(SelectSeq(InputSegments, IsWellFormedSegment), <<"/">>)
        /\ (\A k \in 1..Len(InputSegments) : IsWellFormedSegment(InputSegments[k]))
               => Rejoined = path_input

C27_Witness ==
    /\ path_parts # <<>>
    /\ Len(Parsed) >= 2
    /\ \E k \in 1..Len(Parsed) : Parsed[k].index = <<3>>
    /\ \E k \in 1..Len(InputSegments) :
          InputSegments[k] # <<>> /\ ~IsWellFormedSegment(InputSegments[k])
    /\ Rejoined # path_input

(***************************************************************************)
(* Properties of the scan of the snapshot for a semantic strategy.         *)
(***************************************************************************)
\* positions, in iteration order, of the snapshot nodes that satisfy the
\* strategy's predicate and are visible
VisibleMatches(type, value, metadata) ==
    {k \in 1..Len(selector_map[1]) :
        /\ MatchesStrategy(selector_map[1][k][2], type, value, metadata)
        /\ selector_map[1][k][2].is_visible}

FirstOf(positions) == CHOOSE k \in positions : \A m \in positions : k <= m

\* C28: the index a semantic strategy returns is that of the first node, in
\* snapshot iteration order, that satisfies the strategy's predicate and is
\* visible; a semantic strategy fails to find a node only when no node of
\* the snapshot satisfies the predicate and is visible.
C28_FirstVisibleMatchReturned ==
    /\ (result # <<>> /\ result[1].kind = "index") =>
          LET strategy == result[1].strategy
              hits == VisibleMatches(strategy.type, strategy.value, strategy.metadata)
          IN  /\ hits # {}
              /\ result[1].index = selector_map[1][FirstOf(hits)][1]
    /\ \A k \in 1..Len(strategy_attempts) :
          strategy_attempts[k].error_message = "No matching element found in DOM" =>
              VisibleMatches(strategy_attempts[k].strategy_type,
                             strategy_attempts[k].strategy_value,
                             strategy_attempts[k].metadata) = {}

C28_Witness ==
    /\ pc = "done"
    /\ result # <<>>
    /\ result[1].kind = "index"
    /\ \E k, m \in 1..Len(selector_map[1]) :
          /\ k < m
          /\ selector_map[1][m][1] = result[1].index
          /\ ~selector_map[1][k][2].is_visible
          /\ MatchesStrategy(selector_map[1][k][2], result[1].strategy.type,
                             result[1].strategy.value, result[1].strategy.metadata)

(***************************************************************************)
(* Properties of the role inferred for a descriptor and of the role_text   *)
(* strategy built from it.                                                 *)
(***************************************************************************)
LoweredTag == Lower(GetOr(element_data.tag_name, <<>>))

\* the fixed table from tag to role
TagRoles ==
    { <<<<"b", "u", "t", "t", "o", "n">>, <<"b", "u", "t", "t", "o", "n">>>>, <<<<"a">>, <<"l", "i", "n", "k">>>>, <<<<"i", "n", "p", "u", "t">>, <<"t", "e", "x", "t", "b", "o", "x">>>>,
      <<<<"t", "e", "x", "t", "a", "r", "e", "a">>, <<"t", "e", "x", "t", "b", "o", "x">>>>, <<<<"s", "e", "l", "e", "c", "t">>, <<"c", "o", "m", "b", "o", "b", "o", "x">>>>,
      <<<<"h", "1">>, <<"h", "e", "a", "d", "i", "n", "g">>>>, <<<<"h", "2">>, <<"h", "e", "a", "d", "i", "n", "g">>>>, <<<<"h", "3">>, <<"h", "e", "a", "d", "i", "n", "g">>>>,
      <<<<"h", "4">>, <<"h", "e", "a", "d", "i", "n", "g">>>>, <<<<"h", "5">>, <<"h", "e", "a", "d", "i", "n", "g">>>>, <<<<"h", "6">>, <<"h", "e", "a", "d", "i", "n", "g">>>>,
      <<<<"i", "m", "g">>, <<"i", "m", "g">>>>, <<<<"t", "a", "b", "l", "e">>, <<"t", "a", "b", "l", "e">>>>, <<<<"u", "l">>, <<"l", "i", "s", "t">>>>,
      <<<<"o", "l">>, <<"l", "i", "s", "t">>>>, <<<<"n", "a", "v">>, <<"n", "a", "v", "i", "g", "a", "t", "i", "o", "n">>>> }

\* the input types with a role of their own
InputTypeRoles ==
    { <<<<"c", "h", "e", "c", "k", "b", "o", "x">>, <<"c", "h", "e", "c", "k", "b", "o", "x">>>>, <<<<"r", "a", "d", "i", "o">>, <<"r", "a", "d", "i", "o">>>>, <<<<"s", "u", "b", "m", "i", "t">>, <<"b", "u", "t", "t", "o", "n">>>> }

HasAttribute(name) == \E k \in 1..Len(Attributes) : Attributes[k][1] = name

\* the role the descriptor has by the rule: <<>> for none, else <<role>>
RoleByRule ==
    IF HasAttribute(<<"r", "o", "l", "e">>) THEN <<AttrGet(Attributes, <<"r", "o", "l", "e">>)>>
    ELSE IF /\ LoweredTag = <<"i", "n", "p", "u", "t">>
            /\ HasAttribute(<<"t", "y", "p", "e">>)
            /\ \E pair \in InputTypeRoles : pair[1] = Lower(AttrGet(Attributes, <<"t", "y", "p", "e">>))
         THEN <<(CHOOSE pair \in InputTypeRoles :
                     pair[1] = Lower(AttrGet(Attributes, <<"t", "y", "p", "e">>)))[2]>>
    ELSE IF \E pair \in TagRoles : pair[1] = LoweredTag
         THEN <<(CHOOSE pair \in TagRoles : pair[1] = LoweredTag)[2]>>
    ELSE <<>>

\* the trimmed text and the role by the rule are both non-empty
TextAndRole == TrimmedText # <<>> /\ RoleByRule # <<>> /\ RoleByRule[1] # <<>>

\* every role_text strategy in the list returned has priority 2, the trimmed
\* text as value and the role by the rule in its metadata, there is at most
\* one, and none without text and role
RoleTextAsInferred ==
    /\ Cardinality(OfType("role_text")) <= 1
    /\ \A k \in OfType("role_text") :
          /\ TextAndRole
          /\ gen_strategies[k].priority = 2
          /\ gen_strategies[k].value = TrimmedText
          /\ gen_strategies[k].metadata.role = RoleByRule[1]

\* C29 as stated: the role is the explicit role attribute when the descriptor
\* has one, else 'checkbox', 'radio' or 'button' for an input of type
\* checkbox, radio or submit, else the entry of the tag table; the list
\* returned holds a role_text strategy (priority 2, role in metadata, text as
\* value) exactly when the trimmed text and the role are both non-empty.
C29_RoleTextIffTextAndRole ==
    genPc = "returned" =>
        /\ RoleTextAsInferred
        /\ TextAndRole => OfType("role_text") # {}

\* a total cap that leaves room for the first two strategies: unset, 0 or at
\* least 2
RoomForTwo ==
    \/ max_total_strategies = <<>>
    \/ max_total_strategies[1] = 0
    \/ max_total_strategies[1] >= 2

\* C29 amended: as stated, the role_text strategy being in the list returned
\* whenever text and role are non-empty and the total cap is unset, 0 or at
\* least 2.
C29_RoleTextIffTextAndRoleUnderCap ==
    genPc = "returned" =>
        /\ RoleTextAsInferred
        /\ (TextAndRole /\ RoomForTwo) => OfType("role_text") # {}

C29_Witness ==
    /\ genPc = "returned"
    /\ OfType("role_text") # {}
    /\ LoweredTag = <<"i", "n", "p", "u", "t">>
    /\ ~HasAttribute(<<"r", "o", "l", "e">>)
    /\ max_total_strategies = <<2>>
    /\ \E k \in OfType("role_text") : gen_strategies[k].metadata.role = <<"b", "u", "t", "t", "o", "n">>

(***************************************************************************)
(* Properties of the presence of the captured absolute path in the list    *)
(* returned.                                                               *)
(***************************************************************************)
\* generate_strategies returned for a descriptor with a captured absolute
\* path, path fallback included
CapturedPathCase ==
    /\ genPc = "returned"
    /\ include_xpath_fallback
    /\ CapturedPath # <<>>

\* the list returned holds an xpath strategy whose value is the absolute path
AbsolutePathReturned ==
    \E x \in OfType("xpath") : gen_strategies[x].value = CapturedPath

\* C30 as stated: whenever the descriptor carries a captured absolute path
\* and path fallback is included, the list returned holds an xpath strategy
\* whose value is the absolute path, for every configuration of the
\* generator.
C30_AbsolutePathAlwaysReturned == CapturedPathCase => AbsolutePathReturned

\* no total cap: max_total_strategies is None or 0
NoTotalCap == max_total_strategies = <<>> \/ max_total_strategies[1] = 0

\* C30 amended: the same for a generator without a total cap whose
\* max_xpath_alternatives is a number when optimization is enabled.
C30_AbsolutePathReturnedWithoutCap ==
    ( /\ CapturedPathCase
      /\ NoTotalCap
      /\ (enable_xpath_optimization => max_xpath_alternatives # <<>>) ) =>
        AbsolutePathReturned

C30_Witness ==
    /\ CapturedPathCase
    /\ enable_xpath_optimization
    /\ max_xpath_alternatives = <<2>>
    /\ max_total_strategies = <<>>
    /\ AbsolutePathReturned
    /\ Len(gen_strategies) > 2
    /\ gen_strategies[Len(gen_strategies)].value = CapturedPath

====
